---------------------------- MODULE Spec2Model ----------------------------
(***************************************************************************)
(* A model of the extraction and normalisation engine of canvas-parent:    *)
(* the blob extractor and its memo (scrappers/assignment_scraper.py), the  *)
(* date normaliser, the status classifier, extract_data, and the weighted  *)
(* grade calculator (scrappers/grade_scraper.py).                          *)
(*                                                                         *)
(* Abstractions.  A page is what BeautifulSoup makes of the HTML: the      *)
(* sequence of its script regions and the sequence of its assignment rows. *)
(* A script region is described by what the extractor asks of it: whether  *)
(* it has a string, whether the string holds 'ENV' and 'assignment_groups',*)
(* and what the ENV literal is (no match of the pattern, a literal json    *)
(* rejects, or a parsed blob).  A calendar date is a day number; Today is  *)
(* the day of datetime.now().  A date text is described by its dialect     *)
(* (which of the text strategies reads it) and the day it denotes.         *)
(* Floating point numbers are exact rationals n/d.                         *)
(***************************************************************************)
EXTENDS Integers, Sequences, FiniteSets, TLC

VARIABLES
    soup,             \* BaseScraper.soup: the page set by set_page_content
    course_id,        \* BaseScraper.course_id
    env_data_cache,   \* AssignmentScraper._env_data_cache
    scans,            \* runs of _extract_env_data_from_scripts since the page was set
    asks,             \* calls of _get_env_data since the page was set
    db,               \* the tables behind DatabaseManager.db_session
    arg,              \* the arguments of the last call
    out               \* the outcome of the last call

vars == <<soup, course_id, env_data_cache, scans, asks, db, arg, out>>

---------------------------------------------------------------------------
(* Bounds of the model *)

MaxScripts == 3       \* script regions of a page
MaxRows == 2          \* assignment rows of a page
MaxAsks == 6          \* cap of the counters of blob requests and scans
MaxAssignments == 2   \* assignments listed in a blob's assignment_groups
MaxStudents == 2      \* student entries of an effective_due_dates member
MaxGroups == 2        \* assignment groups of a grades blob
MaxScale == 3         \* entries of a grading scale

\* the day of datetime.now(); a due date is past, today or future
Today == 15
Past == Today - 1
Future == Today + 1
Days == {Past, Today, Future}

\* assignment ids: the id asked for and another one
Ids == {1, 2}
NoId == 0             \* assignment_id = None (or '')

---------------------------------------------------------------------------
(* Optional values *)

NoDate == [ok |-> FALSE, day |-> 0]
Date(d) == [ok |-> TRUE, day |-> d]

\* json values of a due_at member
NullDue == [kind |-> "null", day |-> 0]
BadDue == [kind |-> "bad", day |-> 0]
IsoDue(d) == [kind |-> "iso", day |-> d]
DueAts == {NullDue, BadDue, IsoDue(Past), IsoDue(Future)}

\* the parsed ENV object: the assignments of its assignment_groups in
\* document order, and its effective_due_dates (per id, the due_at of the
\* student entries in document order).  agShape / effShape: the member is
\* missing, json null, or the expected container.
EmptyBlob == [agShape |-> "missing", ag |-> <<>>,
              effShape |-> "missing", eff |-> [i \in Ids |-> <<>>]]

\* the page held by the scraper: soup.set is 'self.soup is not None'
NoSoup == [set |-> FALSE, scripts |-> <<>>, rows |-> <<>>]
Soup(scripts, rows) == [set |-> TRUE, scripts |-> scripts, rows |-> rows]

NoEnv == [set |-> FALSE, blob |-> EmptyBlob]
Env(b) == [set |-> TRUE, blob |-> b]

\* a blob is falsy in python when the dict is empty
IsEmptyDict(b) == b.agShape = "missing" /\ b.effShape = "missing"

---------------------------------------------------------------------------
(* The blob extractor *)

NoMatch == [tag |-> "nomatch", blob |-> EmptyBlob]
BadJson == [tag |-> "bad", blob |-> EmptyBlob]
Json(b) == [tag |-> "json", blob |-> b]

Script(hasString, hasENV, hasAG, lit) ==
    [string |-> hasString, hasENV |-> hasENV, hasAG |-> hasAG, lit |-> lit]

_script_contains_env_data(script) ==
    IF ~script.string THEN FALSE
    ELSE script.hasENV /\ script.hasAG

RECURSIVE FirstParsed(_, _)
\* the loop of _extract_env_data_from_scripts from script i on
FirstParsed(scripts, i) ==
    IF i > Len(scripts) THEN NoEnv
    ELSE IF ~_script_contains_env_data(scripts[i]) THEN FirstParsed(scripts, i + 1)
    ELSE IF scripts[i].lit.tag = "json" THEN Env(scripts[i].lit.blob)
    ELSE FirstParsed(scripts, i + 1)

RECURSIVE LastParsed(_, _)
LastParsed(scripts, i) ==
    IF i < 1 THEN NoEnv
    ELSE IF _script_contains_env_data(scripts[i]) /\ scripts[i].lit.tag = "json"
         THEN Env(scripts[i].lit.blob)
    ELSE LastParsed(scripts, i - 1)

_extract_env_data_from_scripts_Last(scripts) == LastParsed(scripts, Len(scripts))

_extract_env_data_from_scripts(scripts) == FirstParsed(scripts, 1)


---------------------------------------------------------------------------
(* The memo of the blob: operations on the instance thread                 *)
(* inst = [cache, scans, asks] through their calls and return it with      *)
(* their value: the memo, the runs of _extract_env_data_from_scripts and   *)
(* the calls of _get_env_data since the page was set.                      *)

Inst(cache, n, a) == [cache |-> cache, scans |-> n, asks |-> a]

\* 'if self._env_data_cache is not None: return self._env_data_cache'
_get_env_data(sp, inst) ==
    IF inst.cache.set
    THEN [val |-> inst.cache, inst |-> Inst(inst.cache, inst.scans, inst.asks + 1)]
    ELSE LET e == _extract_env_data_from_scripts(sp.scripts)
         IN  [val |-> e, inst |-> Inst(e, inst.scans + 1, inst.asks + 1)]

---------------------------------------------------------------------------
(* The date normaliser *)

_parse_iso_date_to_datetime(due_at) ==
    IF due_at.kind = "iso" THEN Date(due_at.day) ELSE NoDate

\* a lookup ends with a date, with None, or raises
Found(d) == [raised |-> FALSE, date |-> d]
Raised == [raised |-> TRUE, date |-> NoDate]

RECURSIVE DueInGroups(_, _, _)
\* the nested loops of _find_due_date_in_assignment_groups from entry i on:
\* the first entry of the id with a truthy due_at decides
DueInGroups(ag, assignment_id, i) ==
    IF i > Len(ag) THEN NoDate
    ELSE IF ag[i].id = assignment_id /\ ag[i].due_at.kind # "null"
         THEN _parse_iso_date_to_datetime(ag[i].due_at)
    ELSE DueInGroups(ag, assignment_id, i + 1)

_find_due_date_in_assignment_groups(env_data, assignment_id) ==
    CASE env_data.agShape = "missing" -> Found(NoDate)
      [] env_data.agShape = "null" -> Raised        \* for group in None
      [] OTHER -> Found(DueInGroups(env_data.ag, assignment_id, 1))

RECURSIVE DueInStudents(_, _)
DueInStudents(dues, i) ==
    IF i > Len(dues) THEN NoDate
    ELSE IF dues[i].kind # "null" THEN _parse_iso_date_to_datetime(dues[i])
    ELSE DueInStudents(dues, i + 1)

_find_due_date_in_effective_dates(env_data, assignment_id) ==
    CASE env_data.effShape = "missing" -> Found(NoDate)
      [] env_data.effShape = "null" -> Raised       \* assignment_id not in None
      [] OTHER -> Found(DueInStudents(env_data.eff[assignment_id], 1))

\* returns [raised, date, inst]
_extract_structured_date(sp, assignment_id, inst) ==
    IF ~sp.set \/ assignment_id = NoId
    THEN [raised |-> FALSE, date |-> NoDate, inst |-> inst]
    ELSE LET g == _get_env_data(sp, inst)
             env_data == g.val.blob
             a == _find_due_date_in_assignment_groups(env_data, assignment_id)
             e == _find_due_date_in_effective_dates(env_data, assignment_id)
         IN  IF ~g.val.set \/ IsEmptyDict(env_data)
             THEN [raised |-> FALSE, date |-> NoDate, inst |-> g.inst]
             ELSE IF a.raised
             THEN [raised |-> TRUE, date |-> NoDate, inst |-> g.inst]
             ELSE IF a.date.ok
             THEN [raised |-> FALSE, date |-> a.date, inst |-> g.inst]
             ELSE [raised |-> e.raised, date |-> e.date, inst |-> g.inst]

\* A date text: its dialect and the day it denotes.
\*   empty      ''
\*   blank      whitespace only: a true string that strips to ''
\*   sentinel   'TBD', 'No Due Date', 'n/a', '-', 'none': a spelling of the
\*              no_date_indicators set
\*   recased    'Tbd', 'NO DUE DATE', 'NONE': a sentinel in a letter case
\*              the set does not list
\*   flexible   'Jun 16 by 11:59pm': dateutil reads it
\*   embedded   'Homework Jun 16 foo': dateutil rejects it, the named-month
\*              pattern of the regex fallback finds the date in it
\*   junk       'Strange format XYZ': no strategy reads it
Text(form, d) == [form |-> form, day |-> d]
EmptyText == Text("empty", 0)
SentinelTexts == {EmptyText, Text("blank", 0), Text("sentinel", 0), Text("recased", 0)}

\* _parse_date_with_dateutil that parses whatever is left of the text: a
\* text without a month and a day comes back as the default date
_parse_date_with_dateutil_Guessing(date_str) ==
    CASE date_str.form = "empty" -> NoDate
      [] date_str.form = "sentinel" -> NoDate
      [] date_str.form = "flexible" -> Date(date_str.day)
      [] date_str.form = "embedded" -> NoDate
      [] OTHER -> Date(Past)

_parse_date_with_dateutil(date_str) ==
    CASE date_str.form = "empty" -> NoDate          \* if not date_str
      [] date_str.form = "sentinel" -> NoDate       \* in no_date_indicators
      [] date_str.form \in {"blank", "recased", "junk"} -> NoDate
                                                    \* no '<word> <digits>'
      [] date_str.form = "flexible" -> Date(date_str.day)
      [] OTHER -> NoDate                            \* dateutil: ValueError

_parse_date_with_regex(date_str) ==
    IF date_str.form \in {"flexible", "embedded"} THEN Date(date_str.day) ELSE NoDate

\* the text strategies of _parse_date, in their order
TextDate(date_str) ==
    IF _parse_date_with_dateutil(date_str).ok THEN _parse_date_with_dateutil(date_str)
    ELSE _parse_date_with_regex(date_str)

\* returns [raised, date, inst]
_parse_date(sp, date_str, assignment_id, inst) ==
    IF date_str.form = "empty"
    THEN [raised |-> FALSE, date |-> NoDate, inst |-> inst]
    ELSE LET s == _extract_structured_date(sp, assignment_id, inst)
         IN  IF assignment_id # NoId /\ s.raised
             THEN [raised |-> TRUE, date |-> NoDate, inst |-> s.inst]
             ELSE IF assignment_id # NoId /\ s.date.ok
             THEN [raised |-> FALSE, date |-> s.date, inst |-> s.inst]
             ELSE [raised |-> FALSE, date |-> TextDate(date_str),
                   inst |-> IF assignment_id # NoId THEN s.inst ELSE inst]

---------------------------------------------------------------------------
(* The status classifier *)

\* An assignment row (tr.student_assignment), by what the scraper reads of it:
\*   excused, graded, missing_assignment, final   classes of the row
\*          (graded: 'assignment_graded'; final: 'final_grade' or 'group_total')
\*   id             the <id> of the row id 'submission_<id>', NoId without it
\*   status_cell    td.status exists; late_pill, missing_pill: its pills;
\*                  missing_status: its class 'missing'
\*   status_text    the stripped text of span.submission_status ('' without it)
\*   due_cell, due_text              td.due and its stripped text
\*   submitted_cell, submitted_text  td.submitted and its stripped text
\*   score_cell, score_text          td.assignment_score and its stripped text:
\*                  'empty', 'dash' ('- / 10'), 'endash', 'number' ('5 / 10')
\*   title          th.title: 'none', 'nolink' (no <a>), 'link'
\*   name           the stripped text of the link: '' or a name
\*   href_id        the <id> of '/assignments/<id>' in the link's href, or NoId
\*   span_id        the text of span.assignment_id, or NoId
StatusTexts == {"", "graded", "submitted", "unsubmitted"}
ScoreTexts == {"empty", "dash", "endash", "number"}

\* the 'class' values a row, without its cells, can carry
RowFlags == [excused : BOOLEAN, graded : BOOLEAN,
             missing_assignment : BOOLEAN, final : BOOLEAN]

\* the status cell and the status span
StatusCells == [status_cell : BOOLEAN, late_pill : BOOLEAN,
                missing_pill : BOOLEAN, missing_status : BOOLEAN]

EXCUSED == "excused"
LATE == "late"
GRADED == "graded"
SUBMITTED == "submitted"
UPCOMING == "upcoming"
MISSING == "missing"
UNKNOWN == "unknown"

is_pending_grading(score_text) == score_text \in {"endash", "dash", "empty"}

\* StatusChain with the late pill read before the excused class
StatusChain_LateFirst(row, due) ==
    LET missing_pill == row.status_cell /\ row.missing_pill
        missing_status_class == row.status_cell /\ row.missing_status
    IN  CASE row.status_cell /\ row.late_pill -> LATE
          [] row.excused -> EXCUSED
          [] row.status_text = "graded" \/ row.graded -> GRADED
          [] row.status_text = "submitted" -> SUBMITTED
          [] due.raised -> UNKNOWN
          [] due.date.ok /\ due.date.day > Today -> UPCOMING
          [] missing_pill -> MISSING
          [] row.status_text = "unsubmitted"
             /\ (row.missing_assignment \/ missing_status_class) -> MISSING
          [] row.status_text = "unsubmitted" -> UNKNOWN
          [] row.final -> UNKNOWN
          [] row.submitted_cell /\ row.submitted_text.form # "empty" -> SUBMITTED
          [] OTHER -> UNKNOWN

\* StatusChain with the missing pill read before the due date
StatusChain_MissingFirst(row, due) ==
    LET missing_pill == row.status_cell /\ row.missing_pill
        missing_status_class == row.status_cell /\ row.missing_status
    IN  CASE row.excused -> EXCUSED
          [] row.status_cell /\ row.late_pill -> LATE
          [] row.status_text = "graded" \/ row.graded -> GRADED
          [] row.status_text = "submitted" -> SUBMITTED
          [] missing_pill -> MISSING
          [] due.raised -> UNKNOWN
          [] due.date.ok /\ due.date.day > Today -> UPCOMING
          [] row.status_text = "unsubmitted"
             /\ (row.missing_assignment \/ missing_status_class) -> MISSING
          [] row.status_text = "unsubmitted" -> UNKNOWN
          [] row.final -> UNKNOWN
          [] row.submitted_cell /\ row.submitted_text.form # "empty" -> SUBMITTED
          [] OTHER -> UNKNOWN

\* StatusChain with the pending-grading reading of the score cell before
\* the missing pill
StatusChain_PendingFirst(row, due) ==
    LET missing_pill == row.status_cell /\ row.missing_pill
        missing_status_class == row.status_cell /\ row.missing_status
    IN  CASE row.excused -> EXCUSED
          [] row.status_cell /\ row.late_pill -> LATE
          [] row.status_text = "graded" \/ row.graded -> GRADED
          [] row.status_text = "submitted" -> SUBMITTED
          [] due.raised -> UNKNOWN
          [] due.date.ok /\ due.date.day > Today -> UPCOMING
          [] row.status_text = "unsubmitted"
             /\ row.score_cell /\ is_pending_grading(row.score_text) -> UNKNOWN
          [] missing_pill -> MISSING
          [] row.status_text = "unsubmitted"
             /\ (row.missing_assignment \/ missing_status_class) -> MISSING
          [] row.status_text = "unsubmitted" -> UNKNOWN
          [] row.final -> UNKNOWN
          [] row.submitted_cell /\ row.submitted_text.form # "empty" -> SUBMITTED
          [] OTHER -> UNKNOWN

\* StatusChain without the second return of the unsubmitted branch: an
\* unsubmitted row whose score cell holds a number goes on to the later steps
StatusChain_UnsubmittedGoesOn(row, due) ==
    LET missing_pill == row.status_cell /\ row.missing_pill
        missing_status_class == row.status_cell /\ row.missing_status
    IN  CASE row.excused -> EXCUSED
          [] row.status_cell /\ row.late_pill -> LATE
          [] row.status_text = "graded" \/ row.graded -> GRADED
          [] row.status_text = "submitted" -> SUBMITTED
          [] due.raised -> UNKNOWN
          [] due.date.ok /\ due.date.day > Today -> UPCOMING
          [] missing_pill -> MISSING
          [] row.status_text = "unsubmitted"
             /\ (row.missing_assignment \/ missing_status_class) -> MISSING
          [] row.status_text = "unsubmitted"
             /\ row.score_cell /\ is_pending_grading(row.score_text) -> UNKNOWN
          [] row.final -> UNKNOWN
          [] row.submitted_cell /\ row.submitted_text.form # "empty" -> SUBMITTED
          [] OTHER -> UNKNOWN

\* the steps of _determine_status after the date of step 5 is known:
\* due is the outcome [raised, date] of _parse_date, asked only when the due
\* cell has text
StatusChain(row, due) ==
    LET missing_pill == row.status_cell /\ row.missing_pill
        missing_status_class == row.status_cell /\ row.missing_status
    IN  CASE row.excused -> EXCUSED
          [] row.status_cell /\ row.late_pill -> LATE
          [] row.status_text = "graded" \/ row.graded -> GRADED
          [] row.status_text = "submitted" -> SUBMITTED
          [] due.raised -> UNKNOWN                     \* except Exception
          [] due.date.ok /\ due.date.day > Today -> UPCOMING
          [] missing_pill -> MISSING
          [] row.status_text = "unsubmitted"
             /\ (row.missing_assignment \/ missing_status_class) -> MISSING
          [] row.status_text = "unsubmitted"
             /\ row.score_cell /\ is_pending_grading(row.score_text) -> UNKNOWN
          [] row.status_text = "unsubmitted" -> UNKNOWN
          [] row.final -> UNKNOWN
          [] row.submitted_cell /\ row.submitted_text.form # "empty" -> SUBMITTED
          [] OTHER -> UNKNOWN

\* step 5 is reached, and asks for the date, when no earlier step returned
AsksDueDate(row) ==
    /\ ~row.excused
    /\ ~(row.status_cell /\ row.late_pill)
    /\ ~(row.status_text = "graded" \/ row.graded)
    /\ row.status_text # "submitted"
    /\ row.due_cell
    /\ row.due_text.form # "empty"

\* the outcome of the try block without its handler
Caught_Reraised(r) == r

\* 'except Exception: return AssignmentStatus.UNKNOWN'
Caught(r) ==
    IF r.raised THEN [raised |-> FALSE, val |-> UNKNOWN, inst |-> r.inst] ELSE r

\* returns [raised, val, inst]; the try block raises when the row is None
\* (row.get) and when _parse_date raises at step 5
_determine_status(sp, row, inst) ==
    LET d == IF AsksDueDate(row)
             THEN _parse_date(sp, row.due_text, row.id, inst)
             ELSE [raised |-> FALSE, date |-> NoDate, inst |-> inst]
    IN  Caught(IF row.none
               THEN [raised |-> TRUE, val |-> UNKNOWN, inst |-> inst]
               ELSE [raised |-> d.raised, val |-> StatusChain(row, d),
                     inst |-> d.inst])

---------------------------------------------------------------------------
(* The score parser *)

\* the score cell, by what _parse_score reads of it:
\*   grade   span.grade: 'nospan', or its stripped text: 'EX', 'empty',
\*           'num' (float() reads it), 'text' (float() rejects it)
\*   max     the span whose string holds '/': 'none', 'num', 'text'
\*   grade_n, max_n   the numbers float() reads, when it reads one
Grades == {"nospan", "EX", "empty", "num", "text"}
Maxes == {"none", "num", "text"}

NoScore == [present |-> FALSE, n |-> 0]
Score(n) == [present |-> TRUE, n |-> n]
NoScores == [score |-> NoScore, max_score |-> NoScore]

\* returns (score, max_score), each None or a number
_parse_score(row) ==
    CASE ~row.score_cell -> NoScores
      [] row.grade = "nospan" -> NoScores
      [] row.grade = "EX" -> NoScores
      [] row.grade = "text" -> NoScores               \* float(): ValueError
      [] row.max = "none" -> NoScores
      [] row.max = "text" -> NoScores                 \* float(): ValueError
      [] OTHER -> [score |-> IF row.grade = "num" THEN Score(row.grade_n)
                             ELSE NoScore,            \* '' gives None
                   max_score |-> Score(row.max_n)]

---------------------------------------------------------------------------
(* extract_data *)

\* the context text, by the keywords it holds
Keywords == {"quiz", "project", "writing", "homework", "assignment", "lab", "test"}

_determine_assignment_type(context) ==
    CASE "quiz" \in context -> "QUIZ"
      [] "project" \in context \/ "writing" \in context -> "PROJECT"
      [] "homework" \in context \/ "assignment" \in context -> "HOMEWORK"
      [] "lab" \in context -> "LAB"
      [] "test" \in context -> "TEST"
      [] OTHER -> "OTHER"

\* the assignment id extract_data finds for a row: the row id, else the
\* link's href, else the hidden span
RowAssignmentId(row) ==
    IF row.id # NoId THEN row.id
    ELSE IF row.href_id # NoId THEN row.href_id
    ELSE row.span_id

CellText(present, text) == IF present THEN text ELSE EmptyText

is_missing_ByPill(row, status) == row.status_cell /\ row.missing_pill

is_missing(row, status) == status = MISSING

\* Bind(v, F) is F(v) with v evaluated once: the calls of a handler run in
\* sequence, each on the instance the one before it left
Bind(v, F(_)) == CHOOSE r \in {F(x) : x \in {v}} : TRUE

\* the record extract_data appends for a row
\* name_link.text.strip(): a link text of whitespace only becomes ''
StripName(text) == IF text = "   " THEN "" ELSE text

AssignmentData(row, due_date, submitted_date, status) ==
    [name |-> StripName(row.name),
     assignment_type |-> _determine_assignment_type(row.context),
     due_date |-> due_date,
     submitted_date |-> submitted_date,
     status |-> status,
     score |-> _parse_score(row).score,
     max_score |-> _parse_score(row).max_score,
     is_missing |-> is_missing(row, status)]

\* the body of the loop of extract_data for one row:
\* returns [kept, raised, rec, inst]; kept is FALSE when the row is skipped
\* ('continue': no title cell, no link, or an exception: raised)
ExtractRow(sp, row, inst) ==
    IF row.title # "link"
    THEN [kept |-> FALSE, raised |-> FALSE, rec |-> <<>>, inst |-> inst]
    ELSE
    Bind(_parse_date(sp, CellText(row.due_cell, row.due_text),
                     RowAssignmentId(row), inst), LAMBDA due :
      IF due.raised
      THEN [kept |-> FALSE, raised |-> TRUE, rec |-> <<>>, inst |-> due.inst]
      ELSE
      Bind(_parse_date(sp, CellText(row.submitted_cell, row.submitted_text),
                       RowAssignmentId(row), due.inst), LAMBDA sub :
        IF sub.raised
        THEN [kept |-> FALSE, raised |-> TRUE, rec |-> <<>>, inst |-> sub.inst]
        ELSE
        Bind(_determine_status(sp, row, sub.inst), LAMBDA st :
          [kept |-> TRUE, raised |-> FALSE,
           rec |-> AssignmentData(row, due.date, sub.date, st.val),
           inst |-> st.inst])))

RECURSIVE ExtractRows_Aborting(_, _, _, _)
\* the loop of extract_data with the try around the loop instead of in it:
\* the first row that raises ends the pass
ExtractRows_Aborting(sp, i, acc, inst) ==
    IF i > Len(sp.rows) THEN [assignments |-> acc, inst |-> inst]
    ELSE Bind(ExtractRow(sp, sp.rows[i], inst), LAMBDA r :
           IF r.raised THEN [assignments |-> acc, inst |-> r.inst]
           ELSE ExtractRows_Aborting(sp, i + 1,
                       IF r.kept THEN Append(acc, r.rec) ELSE acc, r.inst))

RECURSIVE ExtractRows(_, _, _, _)
\* the loop of extract_data from row i on: returns [assignments, inst]
ExtractRows(sp, i, acc, inst) ==
    IF i > Len(sp.rows) THEN [assignments |-> acc, inst |-> inst]
    ELSE Bind(ExtractRow(sp, sp.rows[i], inst), LAMBDA r :
           ExtractRows(sp, i + 1,
                       IF r.kept THEN Append(acc, r.rec) ELSE acc, r.inst))

\* returns [raised, assignments, inst]; raised: the ValueError of line 372
extract_data(sp, inst) ==
    IF ~sp.set
    THEN [raised |-> TRUE, assignments |-> <<>>, inst |-> inst]
    ELSE Bind(ExtractRows(sp, 1, <<>>, inst), LAMBDA r :
           [raised |-> FALSE, assignments |-> r.assignments, inst |-> r.inst])

---------------------------------------------------------------------------
(* Exact arithmetic: the floats of the grade computation are rationals     *)
(* n/d, d > 0, in lowest terms.                                            *)

RECURSIVE GCD(_, _)
GCD(a, b) == IF b = 0 THEN a ELSE GCD(b, a % b)

Rat(n, d) ==
    LET g == GCD(n, d)
    IN  IF n = 0 THEN [n |-> 0, d |-> 1] ELSE [n |-> n \div g, d |-> d \div g]

RatAdd(x, y) == Rat(x.n * y.d + y.n * x.d, x.d * y.d)
RatMul(x, y) == Rat(x.n * y.n, x.d * y.d)
RatDiv(x, y) == Rat(x.n * y.d, x.d * y.n)        \* y > 0
RatGeq(x, y) == x.n * y.d >= y.n * x.d
Whole(k) == [n |-> k, d |-> 1]

---------------------------------------------------------------------------
(* The grade scraper *)

\* a json number, or json null (None)
Null == [null |-> TRUE, n |-> 0]
Num(k) == [null |-> FALSE, n |-> k]

\* the submission of an assignment: none in the blob, or one with its score
NoSubmission == [present |-> FALSE, score |-> Null]
Submission(score) == [present |-> TRUE, score |-> score]

\* GradeScraper._extract_env_data: the first script region whose
\* 'ENV = {...};' literal json accepts; nothing is memoized
RECURSIVE GradeFirstParsed(_, _)
GradeFirstParsed(scripts, i) ==
    IF i > Len(scripts) THEN [set |-> FALSE]
    ELSE IF ~scripts[i].string THEN GradeFirstParsed(scripts, i + 1)
    ELSE IF scripts[i].lit.tag = "json" THEN [set |-> TRUE, blob |-> scripts[i].lit.blob]
    ELSE GradeFirstParsed(scripts, i + 1)

_extract_env_data(scripts) == GradeFirstParsed(scripts, 1)

\* the fixed scale
_percentage_to_letter_grade(percentage) ==
    CASE RatGeq(percentage, Whole(94)) -> "A"
      [] RatGeq(percentage, Whole(90)) -> "A-"
      [] RatGeq(percentage, Whole(87)) -> "B+"
      [] RatGeq(percentage, Whole(84)) -> "B"
      [] RatGeq(percentage, Whole(80)) -> "B-"
      [] RatGeq(percentage, Whole(77)) -> "C+"
      [] RatGeq(percentage, Whole(74)) -> "C"
      [] RatGeq(percentage, Whole(70)) -> "C-"
      [] RatGeq(percentage, Whole(67)) -> "D+"
      [] RatGeq(percentage, Whole(64)) -> "D"
      [] RatGeq(percentage, Whole(60)) -> "D-"
      [] OTHER -> "F"

\* an entry of a grading scale: its name and its threshold 'value', a
\* fraction given in hundredths, or a value that is no number
Entry(name, hundredths) == [name |-> name, numeric |-> TRUE, value |-> hundredths]
BadEntry(name) == [name |-> name, numeric |-> FALSE, value |-> 0]

RECURSIVE InsertDescending(_, _, _)
\* e put into the descending sequence q after the entries that are not
\* below it: sorted(..., reverse=True) keeps the listed order of equals
InsertDescending(q, e, i) ==
    IF i > Len(q) THEN Append(q, e)
    ELSE IF q[i].value >= e.value THEN InsertDescending(q, e, i + 1)
    ELSE SubSeq(q, 1, i - 1) \o <<e>> \o SubSeq(q, i, Len(q))

RECURSIVE SortedDescending(_, _, _)
\* sorted(grading_data, key=value, reverse=True), from entry i on
SortedDescending(grading_data, i, acc) ==
    IF i > Len(grading_data) THEN acc
    ELSE SortedDescending(grading_data, i + 1,
                          InsertDescending(acc, grading_data[i], 1))

RECURSIVE FirstAtMost(_, _, _)
\* the loop over the sorted entries: the first whose value is at most the
\* grade as a fraction
FirstAtMost(sorted_grades, percentage, i) ==
    IF i > Len(sorted_grades) THEN "F"
    ELSE IF RatGeq(percentage, Whole(sorted_grades[i].value))
         THEN sorted_grades[i].name
    ELSE FirstAtMost(sorted_grades, percentage, i + 1)

\* the scale read in the order it is listed
_percentage_to_letter_grade_with_scheme_Listed(percentage, grading_data) ==
    IF \E i \in 1 .. Len(grading_data) : ~grading_data[i].numeric
    THEN _percentage_to_letter_grade(percentage)
    ELSE FirstAtMost(grading_data, percentage, 1)

\* percentage / 100 >= value, with value in hundredths, is
\* percentage >= hundredths; a value that is no number raises in the sort
\* or in the comparison, and the fixed scale answers
_percentage_to_letter_grade_with_scheme(percentage, grading_data) ==
    IF \E i \in 1 .. Len(grading_data) : ~grading_data[i].numeric
    THEN _percentage_to_letter_grade(percentage)
    ELSE FirstAtMost(SortedDescending(grading_data, 1, <<>>), percentage, 1)

\* the grades blob: course_active_grading_scheme (the member is missing,
\* json null, an object without data, or an object with data), the
\* assignment_groups and, per assignment id, the submission
GradeBlob(scheme, data, groups, submissions) ==
    [scheme |-> scheme, data |-> data, groups |-> groups, submissions |-> submissions]

Assignment(id, points_possible) == [id |-> id, points_possible |-> points_possible]
Group(group_weight, assignments) ==
    [group_weight |-> group_weight, assignments |-> assignments]

NoTotals == [raised |-> FALSE, earned |-> 0, possible |-> 0]

RECURSIVE GroupTotals(_, _, _, _)
\* the loop over the assignments of a group from assignment i on:
\* [raised, earned, possible]; 'points_possible > 0' raises on None
GroupTotals(assignments, submissions, i, acc) ==
    IF i > Len(assignments) THEN acc
    ELSE LET a == assignments[i]
             counted == /\ a.id # NoId
                        /\ submissions[a.id].present
                        /\ ~submissions[a.id].score.null
         IN  IF ~counted THEN GroupTotals(assignments, submissions, i + 1, acc)
             ELSE IF a.points_possible.null
             THEN [raised |-> TRUE, earned |-> 0, possible |-> 0]
             ELSE GroupTotals(assignments, submissions, i + 1,
                    [raised |-> FALSE,
                     earned |-> acc.earned + submissions[a.id].score.n,
                     possible |-> acc.possible
                                  + IF a.points_possible.n > 0
                                    THEN a.points_possible.n ELSE 0])

NoWeighted == [raised |-> FALSE, total_weighted_score |-> Whole(0), total_weight |-> 0]

\* (group_earned / group_possible) * 100
GroupPercentage(totals) == RatMul(Rat(totals.earned, totals.possible), Whole(100))

\* acc after a group of the given totals has been weighed in
WeighedIn(acc, group, totals) ==
    [raised |-> FALSE,
     total_weighted_score |->
         RatAdd(acc.total_weighted_score,
                RatDiv(RatMul(GroupPercentage(totals), Whole(group.group_weight)),
                       Whole(100))),
     total_weight |-> acc.total_weight + group.group_weight]

RECURSIVE WeightedTotals_ZeroPossible(_, _, _, _)
\* WeightedTotals with a group of possible total zero weighed as a group of
\* percentage zero
WeightedTotals_ZeroPossible(groups, submissions, i, acc) ==
    IF i > Len(groups) THEN acc
    ELSE LET group == groups[i]
             t == GroupTotals(group.assignments, submissions, 1, NoTotals)
         IN  IF group.group_weight <= 0
             THEN WeightedTotals_ZeroPossible(groups, submissions, i + 1, acc)
             ELSE IF t.raised THEN [NoWeighted EXCEPT !.raised = TRUE]
             ELSE IF t.possible > 0
             THEN WeightedTotals_ZeroPossible(groups, submissions, i + 1,
                                              WeighedIn(acc, group, t))
             ELSE WeightedTotals_ZeroPossible(groups, submissions, i + 1,
                    [acc EXCEPT !.total_weight = @ + group.group_weight])

RECURSIVE WeightedTotals(_, _, _, _)
\* the loop over the groups from group i on:
\* [raised, total_weighted_score, total_weight]
WeightedTotals(groups, submissions, i, acc) ==
    IF i > Len(groups) THEN acc
    ELSE LET group == groups[i]
             t == GroupTotals(group.assignments, submissions, 1, NoTotals)
         IN  IF group.group_weight <= 0
             THEN WeightedTotals(groups, submissions, i + 1, acc)
             ELSE IF group.assignments = <<>>
             THEN WeightedTotals(groups, submissions, i + 1, acc)
             ELSE IF t.raised THEN [NoWeighted EXCEPT !.raised = TRUE]
             ELSE IF t.possible > 0
             THEN WeightedTotals(groups, submissions, i + 1, WeighedIn(acc, group, t))
             ELSE WeightedTotals(groups, submissions, i + 1, acc)

NoGrade == [has_grade |-> FALSE, percentage |-> Whole(0), letter_grade |-> "None"]

\* returns None (NoGrade) or the dict with percentage and letter_grade
_extract_overall_grade(sp) ==
    LET e == _extract_env_data(sp.scripts)
    IN  IF ~sp.set \/ ~e.set THEN NoGrade
        ELSE LET env_data == e.blob
                 grading_data == IF env_data.scheme = "data" THEN env_data.data ELSE <<>>
                 w == WeightedTotals(env_data.groups, env_data.submissions, 1,
                                     NoWeighted)
                 final_percentage ==
                     RatMul(RatDiv(w.total_weighted_score, Whole(w.total_weight)),
                            Whole(100))
             IN  IF env_data.scheme = "null" THEN NoGrade        \* None.get
                 ELSE IF env_data.groups = <<>> THEN NoGrade
                 ELSE IF \A i \in Ids : ~env_data.submissions[i].present THEN NoGrade
                 ELSE IF w.raised \/ w.total_weight = 0 THEN NoGrade
                 ELSE [has_grade |-> TRUE,
                       percentage |-> final_percentage,
                       letter_grade |->
                           _percentage_to_letter_grade_with_scheme(final_percentage,
                                                                   grading_data)]

\* an optional percentage and an optional letter of grade_data
NoPercentage == [present |-> FALSE, value |-> Whole(0)]
Percentage(x) == [present |-> TRUE, value |-> x]
NoLetter == "None"

\* GradeScraper.extract_data, the grade members of grade_data:
\* [raised, overall_grade, overall_letter_grade, course_grade,
\*  course_letter_grade, has_course_grade]
GradeScraper_extract_data(sp) ==
    LET overall_grade == _extract_overall_grade(sp)
    IN  IF ~sp.set
        THEN [raised |-> TRUE, overall_grade |-> NoPercentage,
              overall_letter_grade |-> NoLetter, course_grade |-> NoPercentage,
              course_letter_grade |-> NoLetter, has_course_grade |-> FALSE]
        ELSE IF overall_grade.has_grade
        THEN [raised |-> FALSE,
              overall_grade |-> Percentage(overall_grade.percentage),
              overall_letter_grade |-> overall_grade.letter_grade,
              course_grade |-> Percentage(overall_grade.percentage),
              course_letter_grade |-> overall_grade.letter_grade,
              has_course_grade |-> TRUE]
        ELSE [raised |-> FALSE, overall_grade |-> NoPercentage,
              overall_letter_grade |-> NoLetter, course_grade |-> NoPercentage,
              course_letter_grade |-> NoLetter, has_course_grade |-> FALSE]

---------------------------------------------------------------------------
(* The store: the tables courses, assignments, course_grades and           *)
(* service_metadata.  A table is the sequence of its rows in insertion     *)
(* order; the id of a course is its position in courses.                   *)

EmptyDb ==
    [courses |-> <<>>, assignments |-> <<>>, course_grades |-> <<>>,
     service_metadata |-> <<>>]

RECURSIVE FirstCourse(_, _, _, _)
\* query(Course).filter(student_id, canvas_course_id).first(): the id of the
\* first course of the student with the canvas id, from position i on; 0: None
FirstCourse(courses, canvas_course_id, student_id, i) ==
    IF i > Len(courses) THEN 0
    ELSE IF /\ courses[i].student_id = student_id
            /\ courses[i].canvas_course_id = canvas_course_id
         THEN i
    ELSE FirstCourse(courses, canvas_course_id, student_id, i + 1)

\* returns [db, id]
get_or_create_course(d, canvas_course_id, student_id, course_name) ==
    LET found == FirstCourse(d.courses, canvas_course_id, student_id, 1)
    IN  IF found # 0 THEN [db |-> d, id |-> found]
        ELSE [db |-> [d EXCEPT !.courses =
                         Append(@, [student_id |-> student_id,
                                    canvas_course_id |-> canvas_course_id,
                                    course_name |-> course_name])],
              id |-> Len(d.courses) + 1]

\* the rows a call adds for the course
NewAssignments(assignments_data, id) ==
    [i \in 1 .. Len(assignments_data) |->
        [course_id |-> id, data |-> assignments_data[i]]]

\* save_assignments that adds the rows of the call to the rows of the course
save_assignments_Merging(d, assignments_data, canvas_course_id, student_id, course_name) ==
    LET c == get_or_create_course(d, canvas_course_id, student_id, course_name)
    IN  [c.db EXCEPT !.assignments = @ \o NewAssignments(assignments_data, c.id)]

\* returns the store after the commit
save_assignments(d, assignments_data, canvas_course_id, student_id, course_name) ==
    LET c == get_or_create_course(d, canvas_course_id, student_id, course_name)
    IN  [c.db EXCEPT !.assignments =
            SelectSeq(@, LAMBDA r : r.course_id # c.id)
            \o NewAssignments(assignments_data, c.id)]

\* returns the store after the commit
save_scraping_metadata(d, status, student_id) ==
    [d EXCEPT !.service_metadata =
        Append(@, [student_id |-> student_id, last_scraping_status |-> status])]

\* count_course_assignments
count_course_assignments(d, id) ==
    Cardinality({i \in 1 .. Len(d.assignments) : d.assignments[i].course_id = id})

RECURSIVE FirstGrade(_, _, _)
\* query(CourseGrade).filter(course_id).first(): the position of the first
\* grade row of the course, from position i on; 0: None
FirstGrade(course_grades, id, i) ==
    IF i > Len(course_grades) THEN 0
    ELSE IF course_grades[i].course_id = id THEN i
    ELSE FirstGrade(course_grades, id, i + 1)

\* the columns of a grade row taken from grade_data
GradeRow(id, grade_data) ==
    [course_id |-> id, percentage |-> grade_data.percentage,
     letter_grade |-> grade_data.letter_grade, has_grade |-> grade_data.has_grade]

RECURSIVE GradeLoop(_, _, _, _, _)
\* the loop of save_course_grades from entry i on, and the commit after it.
\* The session is made with autoflush=False: a row given to add() is
\* pending, no query sees it before a commit; the commit of
\* get_or_create_course, when it creates the course, writes the pending rows
GradeLoop(d, pending, course_grades_data, student_id, i) ==
    IF i > Len(course_grades_data)
    THEN [d EXCEPT !.course_grades = @ \o pending]
    ELSE LET grade_data == course_grades_data[i]
             c == get_or_create_course(d, grade_data.course_id, student_id,
                                       grade_data.course_name)
             created == Len(c.db.courses) > Len(d.courses)
             flushed == IF created
                        THEN [c.db EXCEPT !.course_grades = @ \o pending]
                        ELSE c.db
             existing_grade == FirstGrade(flushed.course_grades, c.id, 1)
         IN  IF existing_grade # 0
             THEN GradeLoop([flushed EXCEPT !.course_grades[existing_grade] =
                                                GradeRow(c.id, grade_data)],
                            IF created THEN <<>> ELSE pending,
                            course_grades_data, student_id, i + 1)
             ELSE GradeLoop(flushed,
                            Append(IF created THEN <<>> ELSE pending,
                                   GradeRow(c.id, grade_data)),
                            course_grades_data, student_id, i + 1)

\* returns the store after the commit
save_course_grades(d, course_grades_data, student_id) ==
    GradeLoop(d, <<>>, course_grades_data, student_id, 1)

---------------------------------------------------------------------------
(* The page generator: _format_score.  A number is held in tenths (85.5 is *)
(* 855); an argument is None, a text float() rejects, or a number.         *)

NoValue == [kind |-> "none", x |-> 0]
BadValue == [kind |-> "text", x |-> 0]
Value(x) == [kind |-> "num", x |-> x]

\* the text of a number: its whole part, and the decimal point with the
\* tenth when point is TRUE ('85.0' has the point, '85' has not)
FormatG_Str(x) == [whole |-> x \div 10, point |-> TRUE, tenth |-> x % 10]

\* f"{x:g}": the trailing zero and the point are removed
FormatG(x) == [whole |-> x \div 10, point |-> x % 10 # 0, tenth |-> x % 10]

NoDisplay == [kind |-> "none", score_str |-> FormatG(0), max_score_str |-> FormatG(0)]

\* the fragment returned for an absent score and from the except clause
ScorePlaceholder ==
    [placeholder |-> TRUE, letter_grade |-> "", grade_class |-> "",
     score_display |-> NoDisplay]

\* the five bands of lines 111-125
FormatLetter(percentage) ==
    CASE RatGeq(percentage, Whole(90)) -> "A"
      [] RatGeq(percentage, Whole(80)) -> "B"
      [] RatGeq(percentage, Whole(70)) -> "C"
      [] RatGeq(percentage, Whole(60)) -> "D"
      [] OTHER -> "F"

FormatPercentage(score, max_score) ==
    IF max_score = 0 THEN Whole(0)
    ELSE RatMul(Rat(score, max_score), Whole(100))

\* returns [placeholder, letter_grade, grade_class, score_display]
_format_score(score, max_score) ==
    IF score.kind = "none" \/ max_score.kind = "none" THEN ScorePlaceholder
    ELSE IF score.kind = "text" \/ max_score.kind = "text"
    THEN ScorePlaceholder                           \* float(): ValueError
    ELSE LET letter_grade == FormatLetter(FormatPercentage(score.x, max_score.x))
         IN  [placeholder |-> FALSE,
              letter_grade |-> letter_grade,
              grade_class |-> CASE letter_grade = "A" -> "grade-a"
                                [] letter_grade = "B" -> "grade-b"
                                [] letter_grade = "C" -> "grade-c"
                                [] letter_grade = "D" -> "grade-d"
                                [] OTHER -> "grade-f",
              score_display |->
                  IF max_score.x = 1000
                  THEN [kind |-> "percent", score_str |-> FormatG(score.x),
                        max_score_str |-> FormatG(0)]
                  ELSE [kind |-> "fraction", score_str |-> FormatG(score.x),
                        max_score_str |-> FormatG(max_score.x)]]

---------------------------------------------------------------------------
(* Inputs: blobs, script regions, rows *)

RECURSIVE SeqsUpTo(_, _)
\* the sequences over S of length at most n
SeqsUpTo(S, n) ==
    IF n = 0 THEN {<<>>}
    ELSE LET shorter == SeqsUpTo(S, n - 1)
         IN  shorter \cup {Append(q, x) : q \in shorter, x \in S}

Blob(agShape, ag, effShape, eff) ==
    [agShape |-> agShape, ag |-> ag, effShape |-> effShape, eff |-> eff]

NoEff == [i \in Ids |-> <<>>]

\* a blob that lists assignment 1 with the due day d
DueBlob(d) == Blob("list", <<[id |-> 1, due_at |-> IsoDue(d)]>>, "missing", NoEff)

\* a blob with a null assignment_groups
NullGroupsBlob == Blob("null", <<>>, "missing", NoEff)

\* a script region whose literal json rejects, and
\* one that holds the blob b
BadScript == Script(TRUE, TRUE, TRUE, BadJson)
BlobScript(b) == Script(TRUE, TRUE, TRUE, Json(b))

\* a row with a title link and nothing else; none: the row is None
BareRow ==
    [none |-> FALSE, excused |-> FALSE, graded |-> FALSE, missing_assignment |-> FALSE,
     final |-> FALSE, id |-> NoId,
     status_cell |-> FALSE, late_pill |-> FALSE, missing_pill |-> FALSE,
     missing_status |-> FALSE, status_text |-> "",
     due_cell |-> FALSE, due_text |-> EmptyText,
     submitted_cell |-> FALSE, submitted_text |-> EmptyText,
     score_cell |-> FALSE, score_text |-> "empty", grade |-> "nospan", max |-> "none",
     grade_n |-> 0, max_n |-> 0,
     title |-> "link", name |-> "HW", href_id |-> NoId, span_id |-> NoId,
     context |-> {}]

---------------------------------------------------------------------------
(* The scraper instance: set_page_content, scrape, extract_data and        *)
(* _get_env_data called in any order on one AssignmentScraper, as          *)
(* scrape_course does for the scrapers it has registered.                  *)

\* pages of the life cycle: no script region, or one script region (a
\* literal json rejects, or one of two different blobs), and rows that ask
\* for the blob three times (an assignment id and a missing pill) or never
\* (an upcoming row without an id, a graded row with a missing pill)
LifeScripts == {<<>>} \cup {<<k>> : k \in {BadScript, BlobScript(DueBlob(Past)),
                                           BlobScript(DueBlob(Future))}}
LifeRows ==
    SeqsUpTo({[BareRow EXCEPT !.id = 1, !.due_cell = TRUE,
                              !.due_text = Text("flexible", Today),
                              !.submitted_cell = TRUE,
                              !.submitted_text = Text("flexible", Past),
                              !.status_cell = TRUE, !.missing_pill = TRUE],
              [BareRow EXCEPT !.due_cell = TRUE,
                              !.due_text = Text("flexible", Future)],
              [BareRow EXCEPT !.graded = TRUE, !.status_cell = TRUE,
                              !.missing_pill = TRUE, !.score_cell = TRUE,
                              !.score_text = "number", !.grade = "num",
                              !.grade_n = 8, !.max = "num", !.max_n = 10]},
             MaxRows)
LifePages == {Soup(sc, rw) : sc \in LifeScripts, rw \in LifeRows}
CourseIds == {"", "101"}
NoCourse == "None"

NoCall == [op |-> "none"]

Init ==
    /\ soup = NoSoup
    /\ course_id = NoCourse
    /\ env_data_cache = NoEnv
    /\ scans = 0
    /\ asks = 0
    /\ arg = NoCall
    /\ db = EmptyDb
    /\ out = NoCall

\* BaseScraper.set_page_content: the memo is left as it is
SetPageContent ==
    \E page \in LifePages, c \in CourseIds :
        /\ soup' = page
        /\ course_id' = c
        /\ scans' = 0
        /\ asks' = 0
        /\ arg' = [op |-> "set_page_content"]
        /\ out' = [op |-> "set_page_content"]
        /\ UNCHANGED <<env_data_cache, db>>

\* AssignmentScraper._get_env_data called on its own; without a page
\* self.soup.find_all raises
GetEnvData ==
    \E g \in {_get_env_data(soup, Inst(env_data_cache, scans, asks))} :
        /\ asks < MaxAsks
        /\ arg' = [op |-> "_get_env_data"]
        /\ IF ~soup.set /\ ~env_data_cache.set
           THEN /\ out' = [op |-> "_get_env_data", raised |-> TRUE, val |-> NoEnv]
                /\ UNCHANGED <<env_data_cache, scans, asks, db>>
           ELSE /\ out' = [op |-> "_get_env_data", raised |-> FALSE, val |-> g.val]
                /\ env_data_cache' = g.inst.cache
                /\ scans' = g.inst.scans
                /\ asks' = g.inst.asks
        /\ UNCHANGED <<soup, course_id, db>>

\* the outcome of extract_data on the instance as it is
ExtractOutcome(op) ==
    \E r \in {extract_data(soup, Inst(env_data_cache, scans, asks))} :
        /\ r.inst.asks <= MaxAsks
        /\ arg' = [op |-> op]
        /\ out' = [op |-> op, raised |-> r.raised, assignments |-> r.assignments,
                   asked |-> r.inst.asks - asks, scanned |-> r.inst.scans - scans]
        /\ env_data_cache' = r.inst.cache
        /\ scans' = r.inst.scans
        /\ asks' = r.inst.asks
        /\ UNCHANGED <<soup, course_id, db>>

\* AssignmentScraper.extract_data
ExtractData == ExtractOutcome("extract_data")

\* BaseScraper.scrape
Scrape ==
    IF ~soup.set \/ course_id \in {NoCourse, ""}
    THEN /\ arg' = [op |-> "scrape"]
         /\ out' = [op |-> "scrape", raised |-> TRUE, assignments |-> <<>>,
                    asked |-> 0, scanned |-> 0]
         /\ UNCHANGED <<soup, course_id, env_data_cache, scans, asks, db>>
    ELSE ExtractOutcome("scrape")

Next == SetPageContent \/ GetEnvData \/ ExtractData \/ Scrape

Spec == Init /\ [][Next]_vars

---------------------------------------------------------------------------
(* extract_data on its own: one pass over every page of at most            *)
(* MaxRows + 1 rows, on an instance whose memo is empty or holds the blob  *)
(* of an earlier page.                                                     *)

\* row kinds, told apart by the name of the title link: 'A' and 'C' carry
\* the assignment ids 1 and 2 and a due text, so the date normaliser looks
\* them up in the blob; 'B' has no id; 'T' has no title cell; the last
\* row has a title link whose text is whitespace only
RowKinds ==
    {[BareRow EXCEPT !.name = "A", !.id = 1, !.due_cell = TRUE,
                     !.due_text = Text("flexible", Future)],
     [BareRow EXCEPT !.name = "B", !.due_cell = TRUE,
                     !.due_text = Text("flexible", Past),
                     !.status_cell = TRUE, !.missing_pill = TRUE],
     [BareRow EXCEPT !.name = "C", !.id = 2, !.due_cell = TRUE,
                     !.due_text = Text("flexible", Today),
                     !.submitted_cell = TRUE,
                     !.submitted_text = Text("flexible", Past)],
     [BareRow EXCEPT !.name = "H", !.href_id = 1, !.due_cell = TRUE,
                     !.due_text = Text("flexible", Future),
                     !.submitted_cell = TRUE,
                     !.submitted_text = Text("flexible", Today)],
     [BareRow EXCEPT !.name = "T", !.title = "none"],
     [BareRow EXCEPT !.name = "   "]}

\* a blob that lists assignment 1 and has a null effective_due_dates: the
\* lookup of assignment 2 raises
NullEffBlob ==
    Blob("list", <<[id |-> 1, due_at |-> IsoDue(Past)]>>, "null", NoEff)

RowScripts ==
    {<<>>} \cup {<<BlobScript(b)>> : b \in {DueBlob(Past), NullGroupsBlob, NullEffBlob}}

InitRows ==
    /\ \E sc \in RowScripts, rw \in SeqsUpTo(RowKinds, MaxRows + 1),
          c \in {NoEnv, Env(DueBlob(Future))} :
            /\ soup = Soup(sc, rw)
            /\ env_data_cache = c
            /\ arg = [op |-> "extract_data", cache |-> c]
    /\ course_id = "101"
    /\ scans = 0
    /\ asks = 0
    /\ db = EmptyDb
    /\ out = NoCall

ExtractDataRows ==
    /\ out = NoCall
    /\ \E r \in {extract_data(soup, Inst(env_data_cache, scans, asks))} :
        /\ out' = [op |-> "extract_data", raised |-> r.raised,
                   assignments |-> r.assignments]
        /\ env_data_cache' = r.inst.cache
        /\ scans' = r.inst.scans
        /\ asks' = r.inst.asks
    /\ UNCHANGED <<soup, course_id, arg, db>>

SpecRows == InitRows /\ [][ExtractDataRows]_vars

---------------------------------------------------------------------------
(* The store on its own: save_assignments called any number of times, with *)
(* at most MaxRows records, each listed once, for the courses of two       *)
(* students.                                                               *)

\* the records of a call: two records told apart by their name
StoreRecords ==
    {AssignmentData([BareRow EXCEPT !.name = n], NoDate, NoDate, UNKNOWN) :
        n \in {"HW", "Quiz"}}

\* (student, canvas course): two courses of student 1, and the first of
\* them taken by student 2 as well
StoreCourses ==
    {[student_id |-> 1, canvas_course_id |-> "101"],
     [student_id |-> 1, canvas_course_id |-> "102"],
     [student_id |-> 2, canvas_course_id |-> "101"]}

InitStore ==
    /\ soup = NoSoup
    /\ course_id = NoCourse
    /\ env_data_cache = NoEnv
    /\ scans = 0
    /\ asks = 0
    /\ db = EmptyDb
    /\ arg = NoCall
    /\ out = NoCall

SaveAssignments ==
    \E k \in StoreCourses,
       assignments_data \in
           {q \in SeqsUpTo(StoreRecords, MaxRows) :
               \A i, j \in 1 .. Len(q) : q[i] = q[j] => i = j} :
        /\ db' = save_assignments(db, assignments_data, k.canvas_course_id,
                                  k.student_id, "Course")
        /\ arg' = [op |-> "save_assignments", assignments_data |-> assignments_data,
                   canvas_course_id |-> k.canvas_course_id,
                   student_id |-> k.student_id]
        /\ out' = [op |-> "save_assignments"]
        /\ UNCHANGED <<soup, course_id, env_data_cache, scans, asks>>

SpecStore == InitStore /\ [][SaveAssignments]_vars

---------------------------------------------------------------------------
(* The grade table on its own: save_course_grades called any number of     *)
(* times, from an empty store, with lists of at most MaxGrades entries.    *)

MaxGrades == 2        \* entries of the list of a save_course_grades call
MaxGradeRows == 3     \* cap of the rows of course_grades

\* the entries of a call: a course with a grade of 70 or 90, or without one
GradeEntries ==
    {[course_id |-> c, course_name |-> "Course", percentage |-> Percentage(Whole(x)),
      letter_grade |-> l, has_grade |-> TRUE] :
        c \in {"101", "102"}, x \in {90}, l \in {"A-"}}
    \cup {[course_id |-> "101", course_name |-> "Course",
           percentage |-> Percentage(Whole(70)), letter_grade |-> "C-",
           has_grade |-> TRUE],
          [course_id |-> "101", course_name |-> "Course",
           percentage |-> NoPercentage, letter_grade |-> NoLetter,
           has_grade |-> FALSE]}

InitGradeStore ==
    /\ soup = NoSoup
    /\ course_id = NoCourse
    /\ env_data_cache = NoEnv
    /\ scans = 0
    /\ asks = 0
    /\ db = EmptyDb
    /\ arg = NoCall
    /\ out = NoCall

SaveCourseGrades ==
    \E course_grades_data \in SeqsUpTo(GradeEntries, MaxGrades),
       student_id \in {1, 2} :
        /\ Len(db.course_grades) < MaxGradeRows
        /\ db' = save_course_grades(db, course_grades_data, student_id)
        /\ arg' = [op |-> "save_course_grades",
                   course_grades_data |-> course_grades_data,
                   student_id |-> student_id]
        /\ out' = [op |-> "save_course_grades"]
        /\ UNCHANGED <<soup, course_id, env_data_cache, scans, asks>>

SpecGradeStore == InitGradeStore /\ [][SaveCourseGrades]_vars

---------------------------------------------------------------------------
(* The score fragment on its own: _format_score applied to every pair of   *)
(* a score and a maximum, absent, not numeric, or a number in tenths.      *)

InitFormat ==
    /\ \E score \in {NoValue, BadValue}
                    \cup {Value(x) : x \in {0, 85, 90, 180, 599, 600, 780, 855,
                                            870, 920, 1000}},
          max_score \in {NoValue, BadValue}
                        \cup {Value(x) : x \in {0, 100, 105, 200, 1000}} :
            arg = [op |-> "_format_score", score |-> score, max_score |-> max_score]
    /\ soup = NoSoup
    /\ course_id = NoCourse
    /\ env_data_cache = NoEnv
    /\ scans = 0
    /\ asks = 0
    /\ db = EmptyDb
    /\ out = NoCall

FormatScore ==
    /\ out = NoCall
    /\ \E r \in {_format_score(arg.score, arg.max_score)} :
        out' = [op |-> "_format_score", val |-> r]
    /\ UNCHANGED <<soup, course_id, env_data_cache, scans, asks, db, arg>>

SpecFormat == InitFormat /\ [][FormatScore]_vars

---------------------------------------------------------------------------
(* The sections of a course page: _group_assignments_into_sections.  An   *)
(* assignment is its position in the list given (name), its status and    *)
(* its due_date: None, a text fromisoformat rejects, or the iso text of a *)
(* day.                                                                    *)

MaxSection == 3       \* assignments handed to one grouping

NoDueText == [kind |-> "none", day |-> 0]
BadDueText == [kind |-> "bad", day |-> 0]
DueText(d) == [kind |-> "iso", day |-> d]

\* the key of the sort: (0, date) for a parsable due_date, else
\* (1, datetime.max)
sort_key(assignment) ==
    IF assignment.due_date.kind = "iso"
    THEN <<0, assignment.due_date.day>>
    ELSE <<1, 0>>

\* tuple comparison of two keys
KeyLess(k1, k2) == k1[1] < k2[1] \/ (k1[1] = k2[1] /\ k1[2] < k2[2])

RECURSIVE SortedPrefix(_, _, _)
\* list.sort(key=sort_key, reverse=...) as a stable insertion of the first
\* n elements: an element goes behind every element it does not precede,
\* so elements of equal key keep the order of the list
SortedPrefix(list, reverse, n) ==
    IF n = 0 THEN <<>>
    ELSE LET done == SortedPrefix(list, reverse, n - 1)
             x == list[n]
             Precedes(y) == IF reverse THEN KeyLess(sort_key(y), sort_key(x))
                            ELSE KeyLess(sort_key(x), sort_key(y))
             keep == {i \in 1..Len(done) : \A j \in 1..i : ~Precedes(done[j])}
             k == Cardinality(keep)
         IN  SubSeq(done, 1, k) \o <<x>> \o SubSeq(done, k + 1, Len(done))

_group_assignments_into_sections(assignments) ==
    LET upcoming == SelectSeq(assignments, LAMBDA a : a.status = "UPCOMING")
        graded == SelectSeq(assignments, LAMBDA a :
                      a.status \in {"GRADED", "SUBMITTED", "EXCUSED", "LATE"})
        missing == SelectSeq(assignments, LAMBDA a : a.status = "MISSING")
        unknown == SelectSeq(assignments, LAMBDA a :
                      a.status \notin {"UPCOMING", "GRADED", "SUBMITTED",
                                       "EXCUSED", "LATE", "MISSING"})
    IN  [upcoming |-> SortedPrefix(upcoming, FALSE, Len(upcoming)),
         graded |-> SortedPrefix(graded, TRUE, Len(graded)),
         missing |-> SortedPrefix(missing, TRUE, Len(missing)),
         unknown |-> SortedPrefix(unknown, TRUE, Len(unknown))]

InitSections ==
    /\ \E q \in SeqsUpTo({[status |-> st, due_date |-> d] :
                             st \in {"UPCOMING", "GRADED", "LATE", "MISSING", "UNKNOWN"},
                             d \in {NoDueText, BadDueText, DueText(Past), DueText(Future)}},
                         MaxSection) :
        arg = [op |-> "_group_assignments_into_sections",
               assignments |-> [i \in 1..Len(q) |->
                                   [name |-> i, status |-> q[i].status,
                                    due_date |-> q[i].due_date]]]
    /\ soup = NoSoup
    /\ course_id = NoCourse
    /\ env_data_cache = NoEnv
    /\ scans = 0
    /\ asks = 0
    /\ db = EmptyDb
    /\ out = NoCall

GroupIntoSections ==
    /\ out = NoCall
    /\ \E r \in {_group_assignments_into_sections(arg.assignments)} :
        out' = [op |-> "_group_assignments_into_sections", sections |-> r]
    /\ UNCHANGED <<soup, course_id, env_data_cache, scans, asks, db, arg>>

SpecSections == InitSections /\ [][GroupIntoSections]_vars

---------------------------------------------------------------------------
(* The session: scrape_course called any number of times by one manager,   *)
(* for one student, with the AssignmentScraper it registered once and the  *)
(* store behind its DatabaseManager.                                       *)

SessionStudent == 1
SessionCourses == {"101", "102"}

\* the blob of a grades page: one weighted group with one assignment of 100
\* points, and the submission sb of that assignment
SessionBlob(sb) ==
    GradeBlob("missing", <<>>, <<Group(40, <<Assignment(1, Num(100))>>)>>,
              [i \in Ids |-> IF i = 1 THEN sb ELSE NoSubmission])

\* grades pages: without a blob, or with a blob whose assignment has no
\* submission, or a score of 70 or 90; the rows carry no assignment id, so
\* the AssignmentScraper does not consult the blob
SessionScripts ==
    {<<>>} \cup {<<BlobScript(SessionBlob(sb))>> :
                    sb \in {NoSubmission, Submission(Num(70)), Submission(Num(90))}}
SessionRows ==
    SeqsUpTo({[BareRow EXCEPT !.due_cell = TRUE,
                              !.due_text = Text("flexible", Future)]}, 1)

InitSession ==
    /\ soup = NoSoup
    /\ course_id = NoCourse
    /\ env_data_cache = NoEnv
    /\ scans = 0
    /\ asks = 0
    /\ db = EmptyDb
    /\ arg = NoCall
    /\ out = NoCall

\* the course_grade_data of lines 150-157
CourseGradeData(c, course_name, grade_data) ==
    [course_id |-> c, course_name |-> course_name,
     percentage |-> grade_data.course_grade,
     letter_grade |-> grade_data.course_letter_grade,
     has_grade |-> grade_data.has_course_grade]

\* the grade_data of a call that did not reach the GradeScraper
NoGradeData == GradeScraper_extract_data(NoSoup)

\* scrape_course as a function of the manager's state (the registered
\* scraper with its page, course id and memo, and the store): returns
\* [ok, soup, course_id, inst, db, grade_data].  get_grades_page raises
\* (fetched FALSE) and the call returns False; or the registered scraper
\* gets the page, its records are saved, a new GradeScraper reads the page
\* and its grade is saved when it has one
scrape_course(sp, cid, inst, d, c, fetched, page) ==
    IF ~fetched
    THEN [ok |-> FALSE, soup |-> sp, course_id |-> cid, inst |-> inst, db |-> d,
          grade_data |-> NoGradeData]
    ELSE LET data == extract_data(page, Inst(inst.cache, 0, 0))
             grade_data == GradeScraper_extract_data(page)
             saved == save_assignments(d, data.assignments, c, SessionStudent,
                                       "Course")
         IN  [ok |-> TRUE, soup |-> page, course_id |-> c, inst |-> data.inst,
              db |-> IF /\ grade_data.has_course_grade
                        /\ grade_data.course_grade.present
                     THEN save_course_grades(
                              saved,
                              <<CourseGradeData(c, "Course", grade_data)>>,
                              SessionStudent)
                     ELSE saved,
              grade_data |-> grade_data]

ScrapeCourse ==
    \E c \in SessionCourses, fetched \in BOOLEAN,
       sc \in SessionScripts, rw \in SessionRows :
      \E r \in {scrape_course(soup, course_id, Inst(env_data_cache, scans, asks),
                              db, c, fetched, Soup(sc, rw))} :
        /\ arg' = [op |-> "scrape_course", course_id |-> c]
        /\ soup' = r.soup
        /\ course_id' = r.course_id
        /\ env_data_cache' = r.inst.cache
        /\ scans' = r.inst.scans
        /\ asks' = r.inst.asks
        /\ db' = r.db
        /\ out' = IF r.ok
                  THEN [op |-> "scrape_course", ok |-> TRUE,
                        grade_data |-> r.grade_data]
                  ELSE [op |-> "scrape_course", ok |-> FALSE]

SpecSession == InitSession /\ [][ScrapeCourse]_vars

---------------------------------------------------------------------------
(* scrape_all_courses on its own: one call on an empty store, for a course *)
(* list of at most MaxCourses courses, each with the outcome of its page   *)
(* download, and with the collaborator call that raises, if one does.      *)

MaxCourses == 2       \* courses get_course_ids_and_names returns

\* the collaborator call that raises: none, db_manager.get_student,
\* get_course_ids_and_names, or the bookkeeping after the first course that
\* was scraped (get_or_create_course / count_course_assignments)
FailurePoints == {"none", "get_student", "get_courses", "bookkeeping"}

\* the state of the manager: the registered scraper and the store
Manager(sp, cid, inst, d) == [soup |-> sp, course_id |-> cid, inst |-> inst, db |-> d]

RECURSIVE CourseLoop(_, _, _, _, _, _, _)
\* the loop over the courses from course i on: returns
\* [raised, m, failed_courses, course_assignments]
CourseLoop(m, courses, downloads, fail, i, failed_courses, course_assignments) ==
    IF i > Len(courses)
    THEN [raised |-> FALSE, m |-> m, failed_courses |-> failed_courses,
          course_assignments |-> course_assignments]
    ELSE Bind(scrape_course(m.soup, m.course_id, m.inst, m.db, courses[i],
                            downloads[i].fetched, downloads[i].page), LAMBDA r :
           LET after == Manager(r.soup, r.course_id, r.inst, r.db)
               db_course == get_or_create_course(r.db, courses[i], SessionStudent,
                                                 "Course")
           IN  IF ~r.ok
               THEN CourseLoop(after, courses, downloads, fail, i + 1,
                               failed_courses + 1, course_assignments)
               ELSE IF fail = "bookkeeping"
               THEN [raised |-> TRUE, m |-> after, failed_courses |-> failed_courses,
                     course_assignments |-> course_assignments]
               ELSE CourseLoop([after EXCEPT !.db = db_course.db], courses,
                               downloads, fail, i + 1, failed_courses,
                               Append(course_assignments,
                                      count_course_assignments(db_course.db,
                                                               db_course.id))))

\* the except clause of lines 237-251: student_name is read to build the
\* result; it is unbound when get_student raised, the handler then raises
\* UnboundLocalError before save_scraping_metadata
CriticalError(m, student_name_bound) ==
    IF ~student_name_bound
    THEN [raised |-> "UnboundLocalError", status |-> "none", m |-> m]
    ELSE [raised |-> "original", status |-> "critical",
          m |-> [m EXCEPT !.db = save_scraping_metadata(@, "critical",
                                                        SessionStudent)]]

\* returns [raised, status, m]: raised is "none", "original" (the exception
\* of the try block, re-raised) or "UnboundLocalError"
scrape_all_courses(m, courses, downloads, fail) ==
    IF fail = "get_student" THEN CriticalError(m, FALSE)
    ELSE IF fail = "get_courses" THEN CriticalError(m, TRUE)
    ELSE IF courses = <<>>
    THEN [raised |-> "none", status |-> "no courses",
          m |-> [m EXCEPT !.db = save_scraping_metadata(@, "no courses",
                                                        SessionStudent)]]
    ELSE Bind(CourseLoop(m, courses, downloads, fail, 1, 0, <<>>), LAMBDA l :
           IF l.raised THEN CriticalError(l.m, TRUE)
           ELSE [raised |-> "none", status |-> "completed",
                 m |-> [l.m EXCEPT !.db = save_scraping_metadata(@, "completed",
                                                                  SessionStudent)]])

\* the download of a grades page: it fails, or gives a page without a blob
\* or with a blob of a 90% grade, with or without a row
Downloads ==
    {[fetched |-> FALSE, page |-> NoSoup]}
    \cup {[fetched |-> TRUE, page |-> Soup(sc, rw)] :
            sc \in {<<>>, <<BlobScript(SessionBlob(Submission(Num(90))))>>},
            rw \in SessionRows}

InitAll ==
    /\ \E courses \in SeqsUpTo(SessionCourses, MaxCourses), fail \in FailurePoints :
         \E downloads \in [1 .. Len(courses) -> Downloads] :
            arg = [op |-> "scrape_all_courses", courses |-> courses,
                   downloads |-> downloads, fail |-> fail]
    /\ soup = NoSoup
    /\ course_id = NoCourse
    /\ env_data_cache = NoEnv
    /\ scans = 0
    /\ asks = 0
    /\ db = EmptyDb
    /\ out = NoCall

ScrapeAllCourses ==
    /\ out = NoCall
    /\ \E r \in {scrape_all_courses(
                    Manager(soup, course_id, Inst(env_data_cache, scans, asks), db),
                    arg.courses, arg.downloads, arg.fail)} :
        /\ soup' = r.m.soup
        /\ course_id' = r.m.course_id
        /\ env_data_cache' = r.m.inst.cache
        /\ scans' = r.m.inst.scans
        /\ asks' = r.m.inst.asks
        /\ db' = r.m.db
        /\ out' = [op |-> "scrape_all_courses", raised |-> r.raised,
                   status |-> r.status]
    /\ UNCHANGED arg

SpecAll == InitAll /\ [][ScrapeAllCourses]_vars

---------------------------------------------------------------------------
(* The blob extractor on its own: _extract_env_data_from_scripts applied   *)
(* to every page of at most MaxScripts script regions.                     *)

\* what a script region can be: without a string nothing is read of it; the
\* pattern matches only a string that holds 'ENV'; a literal that lists
\* assignments holds 'assignment_groups'
ScriptKinds ==
    {Script(FALSE, FALSE, FALSE, NoMatch)}
    \cup {Script(TRUE, FALSE, ag, NoMatch) : ag \in BOOLEAN}
    \cup {Script(TRUE, TRUE, ag, lit) : ag \in BOOLEAN,
                                        lit \in {NoMatch, BadJson, Json(EmptyBlob)}}
    \cup {Script(TRUE, TRUE, TRUE, Json(DueBlob(d))) : d \in {Past, Future}}

InitEnv ==
    /\ soup \in {Soup(sc, <<>>) : sc \in SeqsUpTo(ScriptKinds, MaxScripts)}
    /\ course_id = "101"
    /\ env_data_cache = NoEnv
    /\ scans = 0
    /\ asks = 0
    /\ arg = NoCall
    /\ db = EmptyDb
    /\ out = NoCall

ExtractEnvDataFromScripts ==
    /\ out = NoCall
    /\ arg' = [op |-> "_extract_env_data_from_scripts"]
    /\ out' = [op |-> "_extract_env_data_from_scripts",
               val |-> _extract_env_data_from_scripts(soup.scripts)]
    /\ scans' = scans + 1
    /\ UNCHANGED <<soup, course_id, env_data_cache, asks, db>>

SpecEnv == InitEnv /\ [][ExtractEnvDataFromScripts]_vars

---------------------------------------------------------------------------
(* The status classifier on its own: _determine_status applied to every    *)
(* row, on a scraper without a page or with a page whose blob lists        *)
(* assignment 1.                                                           *)

DueCells ==
    {[cell |-> FALSE, text |-> EmptyText]}
    \cup {[cell |-> TRUE, text |-> t] :
            t \in {EmptyText, Text("sentinel", 0)}
                  \cup {Text("flexible", d) : d \in Days}}

SubmittedCells ==
    {[cell |-> FALSE, text |-> EmptyText], [cell |-> TRUE, text |-> EmptyText],
     [cell |-> TRUE, text |-> Text("flexible", Past)]}

ScoreCells ==
    {[cell |-> FALSE, text |-> "empty"]}
    \cup {[cell |-> TRUE, text |-> t] : t \in ScoreTexts}

\* a row without a status cell has no pills
StatusCellKinds ==
    {c \in StatusCells :
        ~c.status_cell => ~c.late_pill /\ ~c.missing_pill /\ ~c.missing_status}

StatusRow(f, c, t, d, i, sb, sc) ==
    [BareRow EXCEPT !.excused = f.excused, !.graded = f.graded,
                    !.missing_assignment = f.missing_assignment, !.final = f.final,
                    !.status_cell = c.status_cell, !.late_pill = c.late_pill,
                    !.missing_pill = c.missing_pill,
                    !.missing_status = c.missing_status,
                    !.status_text = t,
                    !.due_cell = d.cell, !.due_text = d.text,
                    !.id = i,
                    !.submitted_cell = sb.cell, !.submitted_text = sb.text,
                    !.score_cell = sc.cell, !.score_text = sc.text]

\* the scraper and the row id: no page; a page whose blob gives assignment 1
\* a past or a future due date, or has a null assignment_groups
StatusSoups ==
    {<<NoSoup, NoId>>, <<NoSoup, 1>>}
    \cup {<<Soup(<<BlobScript(b)>>, <<>>), 1>> :
            b \in {DueBlob(Past), DueBlob(Future), NullGroupsBlob}}

NoneRow == [BareRow EXCEPT !.none = TRUE]

InitStatus ==
    /\ \/ \E si \in StatusSoups, f \in RowFlags, c \in StatusCellKinds,
             t \in StatusTexts, d \in DueCells, sb \in SubmittedCells,
             sc \in ScoreCells :
               /\ soup = si[1]
               /\ arg = [op |-> "_determine_status",
                         row |-> StatusRow(f, c, t, d, si[2], sb, sc)]
       \/ \E si \in StatusSoups :
               /\ soup = si[1]
               /\ arg = [op |-> "_determine_status", row |-> NoneRow]
    /\ course_id = "101"
    /\ env_data_cache = NoEnv
    /\ scans = 0
    /\ asks = 0
    /\ db = EmptyDb
    /\ out = NoCall

DetermineStatus ==
    /\ out = NoCall
    /\ \E r \in {_determine_status(soup, arg.row, Inst(env_data_cache, scans, asks))} :
        /\ out' = [op |-> "_determine_status", raised |-> r.raised, val |-> r.val]
        /\ env_data_cache' = r.inst.cache
        /\ scans' = r.inst.scans
        /\ asks' = r.inst.asks
    /\ UNCHANGED <<soup, course_id, arg, db>>

SpecStatus == InitStatus /\ [][DetermineStatus]_vars

---------------------------------------------------------------------------
(* The date normaliser on its own: _parse_date applied to every text and   *)
(* assignment id, on a fresh scraper without a page, with a page without   *)
(* a blob, or with a page whose blob lists assignments and effective due   *)
(* dates.                                                                  *)

\* the entries of assignment 1, and an entry of assignment 2
AgEntries ==
    {[id |-> 1, due_at |-> d] : d \in DueAts}
    \cup {[id |-> 2, due_at |-> IsoDue(Today)]}

DateBlobs ==
    {Blob(a.shape, a.ag, e.shape, [i \in Ids |-> IF i = 1 THEN e.dues ELSE <<>>]) :
        a \in {[shape |-> "missing", ag |-> <<>>], [shape |-> "null", ag |-> <<>>]}
              \cup {[shape |-> "list", ag |-> q] : q \in SeqsUpTo(AgEntries, MaxAssignments)},
        e \in {[shape |-> "missing", dues |-> <<>>], [shape |-> "null", dues |-> <<>>]}
              \cup {[shape |-> "map", dues |-> q] : q \in SeqsUpTo(DueAts, MaxStudents)}}

DateSoups ==
    {NoSoup, Soup(<<>>, <<>>), Soup(<<BadScript>>, <<>>)}
    \cup {Soup(<<BlobScript(b)>>, <<>>) : b \in DateBlobs}

DateTexts ==
    SentinelTexts \cup {Text("junk", 0)}
    \cup {Text(f, d) : f \in {"flexible", "embedded"}, d \in Days}

InitDate ==
    /\ soup \in DateSoups
    /\ arg \in {[op |-> "_parse_date", date_str |-> t, assignment_id |-> i] :
                    t \in DateTexts, i \in {NoId} \cup Ids}
               \cup {[op |-> "_extract_structured_date", date_str |-> EmptyText,
                      assignment_id |-> i] : i \in {NoId} \cup Ids}
    /\ course_id = "101"
    /\ env_data_cache = NoEnv
    /\ scans = 0
    /\ asks = 0
    /\ db = EmptyDb
    /\ out = NoCall

ExtractStructuredDate ==
    /\ out = NoCall
    /\ arg.op = "_extract_structured_date"
    /\ \E r \in {_extract_structured_date(soup, arg.assignment_id,
                                           Inst(env_data_cache, scans, asks))} :
        /\ out' = [op |-> "_extract_structured_date", raised |-> r.raised,
                   date |-> r.date]
        /\ env_data_cache' = r.inst.cache
        /\ scans' = r.inst.scans
        /\ asks' = r.inst.asks
    /\ UNCHANGED <<soup, course_id, arg, db>>

ParseDate ==
    /\ out = NoCall
    /\ arg.op = "_parse_date"
    /\ \E r \in {_parse_date(soup, arg.date_str, arg.assignment_id,
                             Inst(env_data_cache, scans, asks))} :
        /\ out' = [op |-> "_parse_date", raised |-> r.raised, date |-> r.date]
        /\ env_data_cache' = r.inst.cache
        /\ scans' = r.inst.scans
        /\ asks' = r.inst.asks
    /\ UNCHANGED <<soup, course_id, arg, db>>

SpecDate == InitDate /\ [][ParseDate \/ ExtractStructuredDate]_vars

---------------------------------------------------------------------------
(* The overall grade on its own: _extract_overall_grade applied to a       *)
(* grades page, with no script region, a script region json rejects, or a  *)
(* blob of up to MaxGroups assignment groups over assignments 1 and 2.     *)

\* assignment lists of a group: none, one assignment of 100 points, both,
\* an assignment of no points (extra credit), one without points_possible
GroupAssignments ==
    {<<>>,
     <<Assignment(1, Num(100))>>,
     <<Assignment(2, Num(100))>>,
     <<Assignment(1, Num(100)), Assignment(2, Num(100))>>,
     <<Assignment(1, Num(100)), Assignment(2, Num(0))>>,
     <<Assignment(2, Num(0))>>,
     <<Assignment(2, Null)>>}

\* groups: one without weight, the groups of weight 40 over every
\* assignment list, and the groups of weight 60 that list assignment 2 with
\* 100 points
GradeGroups ==
    {Group(0, <<Assignment(1, Num(100))>>)}
    \cup {Group(40, a) : a \in GroupAssignments}
    \cup {Group(60, a) : a \in {<<Assignment(2, Num(100))>>,
                                 <<Assignment(1, Num(100)), Assignment(2, Num(100))>>}}

\* no submission, an ungraded one, or a score of 0, 70 or 90
Submissions == [Ids -> {NoSubmission, Submission(Null), Submission(Num(0)),
                        Submission(Num(70)), Submission(Num(90))}]

\* a scale listed from the top, and the same scale listed from the bottom
ScaleDown == <<Entry("A", 90), Entry("B", 80), Entry("C", 70), Entry("F", 0)>>
ScaleUp == <<Entry("F", 0), Entry("C", 70), Entry("B", 80), Entry("A", 90)>>

GradeSchemes ==
    {[scheme |-> "missing", data |-> <<>>], [scheme |-> "null", data |-> <<>>],
     [scheme |-> "nodata", data |-> <<>>], [scheme |-> "data", data |-> <<>>],
     [scheme |-> "data", data |-> ScaleDown], [scheme |-> "data", data |-> ScaleUp]}

\* a grades page: no page, no script region, a script region json rejects,
\* or a script region with the blob of the scheme, groups and submissions
GradePage(kind, sc, g, sb) ==
    CASE kind = "none" -> NoSoup
      [] kind = "empty" -> Soup(<<>>, <<>>)
      [] kind = "bad" -> Soup(<<BadScript>>, <<>>)
      [] OTHER -> Soup(<<BlobScript(GradeBlob(sc.scheme, sc.data, g, sb))>>, <<>>)

InitGrade ==
    /\ \/ \E kind \in {"none", "empty", "bad"} :
            soup = GradePage(kind, <<>>, <<>>, <<>>)
       \/ \E sc \in GradeSchemes, g \in SeqsUpTo(GradeGroups, MaxGroups),
             sb \in Submissions :
            soup = GradePage("blob", sc, g, sb)
    /\ arg = [op |-> "_extract_overall_grade"]
    /\ course_id = "101"
    /\ env_data_cache = NoEnv
    /\ scans = 0
    /\ asks = 0
    /\ db = EmptyDb
    /\ out = NoCall

ExtractOverallGrade ==
    /\ out = NoCall
    /\ \E r \in {_extract_overall_grade(soup)} :
        out' = [op |-> "_extract_overall_grade", has_grade |-> r.has_grade,
                percentage |-> r.percentage, letter_grade |-> r.letter_grade]
    /\ UNCHANGED <<soup, course_id, env_data_cache, scans, asks, arg, db>>

GradeExtractData ==
    /\ out = NoCall
    /\ \E r \in {GradeScraper_extract_data(soup)} :
        out' = [op |-> "GradeScraper.extract_data", raised |-> r.raised,
                grade_data |-> r]
    /\ UNCHANGED <<soup, course_id, env_data_cache, scans, asks, arg, db>>

SpecGrade == InitGrade /\ [][ExtractOverallGrade \/ GradeExtractData]_vars

---------------------------------------------------------------------------
(* The letter grade on its own: _percentage_to_letter_grade_with_scheme    *)
(* applied to a percentage and a scale of up to MaxScale entries, listed   *)
(* in any order.                                                           *)

\* the entries a scale is made of; their thresholds differ, as those of a
\* Canvas grading scheme do; one entry has a value that is no number
ScaleEntries ==
    {Entry("A", 94), Entry("B", 80), Entry("C", 70), Entry("D", 60), BadEntry("X")}

Scales ==
    {q \in SeqsUpTo(ScaleEntries, MaxScale) :
        \A i, j \in 1 .. Len(q) : i # j => q[i] # q[j]}

\* percentages around the thresholds, in tenths
Percentages == {Rat(t, 10) : t \in {0, 599, 600, 700, 780, 939, 940, 1000}}

InitLetter ==
    /\ arg \in {[op |-> "_percentage_to_letter_grade_with_scheme",
                 percentage |-> pc, grading_data |-> q] :
                    pc \in Percentages, q \in Scales}
    /\ soup = NoSoup
    /\ course_id = "101"
    /\ env_data_cache = NoEnv
    /\ scans = 0
    /\ asks = 0
    /\ db = EmptyDb
    /\ out = NoCall

PercentageToLetterGradeWithScheme ==
    /\ out = NoCall
    /\ out' = [op |-> "_percentage_to_letter_grade_with_scheme",
               val |-> _percentage_to_letter_grade_with_scheme(arg.percentage,
                                                               arg.grading_data)]
    /\ UNCHANGED <<soup, course_id, env_data_cache, scans, asks, arg, db>>

SpecLetter == InitLetter /\ [][PercentageToLetterGradeWithScheme]_vars

---------------------------------------------------------------------------
(* The score parser on its own: _parse_score applied to no cell and to a   *)
(* cell with every grade token and every '/max' companion.                 *)

ScoreNumbers == {0, 8, 10, 85, 100}

GradeTokens ==
    {[grade |-> g, grade_n |-> 0] : g \in Grades \ {"num"}}
    \cup {[grade |-> "num", grade_n |-> n] : n \in ScoreNumbers}

MaxTokens ==
    {[max |-> m, max_n |-> 0] : m \in Maxes \ {"num"}}
    \cup {[max |-> "num", max_n |-> n] : n \in ScoreNumbers}

ScoreRow(g, m) ==
    [BareRow EXCEPT !.score_cell = TRUE, !.score_text = "number",
                    !.grade = g.grade, !.grade_n = g.grade_n,
                    !.max = m.max, !.max_n = m.max_n]

InitScore ==
    /\ arg \in {[op |-> "_parse_score", row |-> BareRow]}
               \cup {[op |-> "_parse_score", row |-> ScoreRow(g, m)] :
                        g \in GradeTokens, m \in MaxTokens}
    /\ soup = NoSoup
    /\ course_id = "101"
    /\ env_data_cache = NoEnv
    /\ scans = 0
    /\ asks = 0
    /\ db = EmptyDb
    /\ out = NoCall

ParseScore ==
    /\ out = NoCall
    /\ out' = [op |-> "_parse_score", score |-> _parse_score(arg.row).score,
               max_score |-> _parse_score(arg.row).max_score]
    /\ UNCHANGED <<soup, course_id, env_data_cache, scans, asks, arg, db>>

SpecScore == InitScore /\ [][ParseScore]_vars

---------------------------------------------------------------------------
(* Claims on the status classifier, under SpecStatus *)

Classified == out.op = "_determine_status"

\* the normalised due date of the row that was classified: the outcome of
\* _parse_date on the text of its due cell, with the blob the scraper holds
DueSignal ==
    IF arg.row.due_cell /\ arg.row.due_text.form # "empty"
    THEN _parse_date(soup, arg.row.due_text, arg.row.id, Inst(env_data_cache, 0, 0))
    ELSE [raised |-> FALSE, date |-> NoDate, inst |-> Inst(env_data_cache, 0, 0)]

\* rules 1 to 4 of the chain, which precede the due date
EarlyRule(row) ==
    \/ row.excused
    \/ row.status_cell /\ row.late_pill
    \/ row.graded \/ row.status_text = "graded"
    \/ row.status_text = "submitted"

\* the status of the first rule that matches, in the order of the claim
C1_FirstMatch(row, due) ==
    IF row.excused THEN EXCUSED
    ELSE IF row.status_cell /\ row.late_pill THEN LATE
    ELSE IF row.graded \/ row.status_text = "graded" THEN GRADED
    ELSE IF row.status_text = "submitted" THEN SUBMITTED
    ELSE IF due.ok /\ due.day > Today THEN UPCOMING
    ELSE IF (row.status_cell /\ row.missing_pill)
            \/ (row.status_text = "unsubmitted"
                /\ (row.missing_assignment \/ (row.status_cell /\ row.missing_status)))
         THEN MISSING
    ELSE IF row.status_text = "unsubmitted" THEN UNKNOWN
    ELSE IF row.final THEN UNKNOWN
    ELSE IF row.submitted_cell /\ row.submitted_text.form # "empty" THEN SUBMITTED
    ELSE UNKNOWN

(* C1: for every combination of row signals, _determine_status returns the *)
(* status of the first rule that matches in the order EXCUSED, LATE,       *)
(* GRADED, SUBMITTED (status text), UPCOMING (due date known and strictly  *)
(* in the future), MISSING, UNKNOWN (unsubmitted), UNKNOWN (final grade or *)
(* group total), SUBMITTED (submission timestamp), UNKNOWN; no later rule  *)
(* overrides an earlier one.  The due date is the normaliser's outcome:    *)
(* absent, past, today or future; a None row and a normaliser that raises  *)
(* at rule 5 are not combinations of signals.                              *)
C1_FirstRuleWins ==
    Classified =>
        \/ arg.row.none
        \/ ~EarlyRule(arg.row) /\ DueSignal.raised
        \/ out.val = C1_FirstMatch(arg.row, DueSignal.date)

\* an upcoming row that also carries the missing pill, the unsubmitted text,
\* a final_grade class and a submission timestamp
C1_Witness ==
    /\ Classified
    /\ out.val = UPCOMING
    /\ arg.row.status_cell /\ arg.row.missing_pill
    /\ arg.row.status_text = "unsubmitted"
    /\ arg.row.final
    /\ arg.row.submitted_cell /\ arg.row.submitted_text.form # "empty"

(* C2: a row that carries the excused class is classified EXCUSED whatever *)
(* its other signals are.                                                  *)
C2_ExcusedAlways ==
    (Classified /\ arg.row.excused) => out.val = EXCUSED

\* an excused row with the late pill, the graded class, the missing pill and
\* a future due date
C2_Witness ==
    /\ Classified
    /\ out.val = EXCUSED
    /\ arg.row.status_cell /\ arg.row.late_pill /\ arg.row.missing_pill
    /\ arg.row.graded
    /\ DueSignal.date.ok /\ DueSignal.date.day > Today

\* the classification got past rules 1 to 5: none of EXCUSED, LATE, GRADED,
\* SUBMITTED by text and UPCOMING fired, and the normaliser did not raise
ReachesMissingStage ==
    /\ Classified
    /\ ~EarlyRule(arg.row)
    /\ ~DueSignal.raised
    /\ ~(DueSignal.date.ok /\ DueSignal.date.day > Today)

(* C12: whenever the classification reaches the missing/pending stage, a   *)
(* row with a missing pill is MISSING whatever its score cell holds: an    *)
(* unsubmitted row with the pill and a dash placeholder score is MISSING,  *)
(* never UNKNOWN.                                                          *)
C12_PillBeatsPending ==
    (ReachesMissingStage /\ arg.row.status_cell /\ arg.row.missing_pill)
    => out.val = MISSING

\* an unsubmitted row with the missing pill and the score '- / 10'
C12_Witness ==
    /\ ReachesMissingStage
    /\ arg.row.status_cell /\ arg.row.missing_pill
    /\ arg.row.status_text = "unsubmitted"
    /\ arg.row.score_cell /\ arg.row.score_text = "dash"
    /\ out.val = MISSING

\* the try block of the classification cannot finish: the row is None, or
\* the date normaliser raises at the UPCOMING check
StatusFailure ==
    \/ arg.row.none
    \/ ~EarlyRule(arg.row) /\ DueSignal.raised

(* C16: _determine_status never propagates an error: for any row, a None   *)
(* row and a row lacking every expected cell included, and for any failure *)
(* inside the date normalisation of the UPCOMING check, the call returns,  *)
(* and what it returns on a failure is UNKNOWN.                            *)
C16_NeverPropagates ==
    Classified =>
        /\ ~out.raised
        /\ StatusFailure => out.val = UNKNOWN
        /\ arg.row = BareRow => out.val = UNKNOWN

\* a row with the missing pill whose due date lookup raised on a blob with a
\* null assignment_groups, classified UNKNOWN
C16_Witness ==
    /\ Classified
    /\ ~arg.row.none
    /\ arg.row.status_cell /\ arg.row.missing_pill
    /\ ~EarlyRule(arg.row) /\ DueSignal.raised
    /\ ~out.raised /\ out.val = UNKNOWN

\* an unsubmitted row without a missing pill and without a missing class
PlainUnsubmitted(row) ==
    /\ ~row.none
    /\ row.status_text = "unsubmitted"
    /\ ~(row.status_cell /\ row.missing_pill)
    /\ ~row.missing_assignment
    /\ ~(row.status_cell /\ row.missing_status)

(* C26: a row whose raw status is 'unsubmitted', with no missing pill and  *)
(* no missing class, on which none of EXCUSED, LATE, GRADED, UPCOMING      *)
(* fires, is classified UNKNOWN whatever its score cell holds (nothing, a  *)
(* dash placeholder, a number), and also when it carries a final_grade or  *)
(* group_total class or a submission timestamp: never SUBMITTED, never     *)
(* MISSING.                                                                *)
C26_UnsubmittedUnknown ==
    (/\ Classified
     /\ PlainUnsubmitted(arg.row)
     /\ ~EarlyRule(arg.row)
     /\ ~(~DueSignal.raised /\ DueSignal.date.ok /\ DueSignal.date.day > Today))
    => out.val = UNKNOWN

\* an unsubmitted row with a number in its score cell and a submission
\* timestamp, classified UNKNOWN
C26_Witness ==
    /\ Classified
    /\ PlainUnsubmitted(arg.row)
    /\ ~EarlyRule(arg.row)
    /\ ~DueSignal.raised /\ ~DueSignal.date.ok
    /\ arg.row.score_cell /\ arg.row.score_text = "number"
    /\ arg.row.submitted_cell /\ arg.row.submitted_text.form # "empty"
    /\ ~arg.row.final
    /\ out.val = UNKNOWN

---------------------------------------------------------------------------
(* Claims on the blob extractor, under SpecEnv *)

\* the script regions that reference both markers and whose literal parses
Candidates(scripts) ==
    {i \in 1 .. Len(scripts) :
        /\ scripts[i].string /\ scripts[i].hasENV /\ scripts[i].hasAG
        /\ scripts[i].lit.tag = "json"}

\* the script regions that reference both markers and whose literal json rejects
Malformed(scripts) ==
    {i \in 1 .. Len(scripts) :
        /\ scripts[i].string /\ scripts[i].hasENV /\ scripts[i].hasAG
        /\ scripts[i].lit.tag = "bad"}

(* C7: the blob extractor returns the first script region, in document     *)
(* order, that references both 'ENV' and 'assignment_groups' and parses;   *)
(* regions that fail to parse are skipped, later candidates are ignored,   *)
(* and the result is None when none parses.                                *)
C7_FirstParsedWins ==
    out.op = "_extract_env_data_from_scripts" =>
        LET c == Candidates(soup.scripts)
        IN  IF c = {} THEN out.val = NoEnv
            ELSE out.val = Env(soup.scripts[CHOOSE i \in c : \A j \in c : i <= j].lit.blob)

\* a malformed region, then a candidate, then a candidate with another blob
C7_Witness ==
    /\ out.op = "_extract_env_data_from_scripts"
    /\ \E i \in Malformed(soup.scripts), j, k \in Candidates(soup.scripts) :
        /\ i < j /\ j < k
        /\ soup.scripts[j].lit.blob # soup.scripts[k].lit.blob
        /\ out.val = Env(soup.scripts[j].lit.blob)

---------------------------------------------------------------------------
(* Claims on the scraper instance, under Spec *)

\* a pass over the page has returned
PassDone == out.op \in {"extract_data", "scrape"} /\ ~out.raised

(* C3: every record extract_data produces has is_missing equal to          *)
(* (status = MISSING), for every page and every sequence of                *)
(* set_page_content / extract_data calls.                                  *)
C3_IsMissingIffMissing ==
    PassDone =>
        \A i \in 1 .. Len(out.assignments) :
            out.assignments[i].is_missing <=> (out.assignments[i].status = MISSING)

\* a pass has produced a missing record, and a record that is not missing
\* for a row that carries the missing pill
C3_Witness ==
    /\ PassDone
    /\ \E i \in 1 .. Len(out.assignments) :
        out.assignments[i].status = MISSING /\ out.assignments[i].is_missing
    /\ \E i \in 1 .. Len(out.assignments) :
        out.assignments[i].status = GRADED /\ ~out.assignments[i].is_missing

(* C17: scrape and extract_data raise the input-absent ValueError exactly   *)
(* when no page content has been supplied with set_page_content before the *)
(* call; once a page has been supplied, whatever its text and whatever the *)
(* course identifier string, neither call raises it.                       *)
C17_RaisedIffNoPage ==
    out.op \in {"extract_data", "scrape"} => (out.raised <=> ~soup.set)

(* C5: the blob the date normaliser consults during the extraction of a    *)
(* page is the blob of that page: after a pass that asked for the blob,    *)
(* the memo holds what the script regions of the current page give, never  *)
(* data extracted from a page supplied before.                             *)
C5_FreshBlob ==
    (PassDone /\ out.asked > 0)
    => env_data_cache = _extract_env_data_from_scripts(soup.scripts)

(* C6: for a scraper instance and a page, the scan of the script regions   *)
(* runs at most once, however many times the blob is asked for and whether *)
(* the outcome is a blob or its absence.                                   *)
C6_AtMostOneScan == scans <= 1

---------------------------------------------------------------------------
(* Claims on the date normaliser, under SpecDate *)

\* the blob of the page the scraper holds
PageBlob == _extract_env_data_from_scripts(soup.scripts)

\* what the structured lookup finds for the id in the blob of the page:
\* the date of the first non-null due timestamp the assignment groups list
\* for the id, else of the first one the effective due dates list for it
PageDue(id) ==
    IF ~soup.set \/ id = NoId \/ ~PageBlob.set THEN Found(NoDate)
    ELSE LET a == _find_due_date_in_assignment_groups(PageBlob.blob, id)
         IN  IF a.raised \/ a.date.ok THEN a
             ELSE _find_due_date_in_effective_dates(PageBlob.blob, id)

(* C4: _parse_date returns the result of the first strategy that succeeds, *)
(* structured lookup first: whenever an assignment id is supplied and the  *)
(* structured lookup finds a parsable due timestamp for that id in the     *)
(* page's blob, the result is the date of that timestamp, whatever the raw *)
(* text is, the empty text included.                                       *)
C4_StructuredFirst ==
    (out.op = "_parse_date" /\ ~PageDue(arg.assignment_id).raised
     /\ PageDue(arg.assignment_id).date.ok)
    => (~out.raised /\ out.date = PageDue(arg.assignment_id).date)

\* _parse_date was called with a sentinel 'no due date' text
SentinelParsed == out.op = "_parse_date" /\ arg.date_str \in SentinelTexts

\* the structured lookup has nothing for the call: no id was supplied, or
\* the blob of the page holds no due date for the id
NoPageDue ==
    ~PageDue(arg.assignment_id).raised /\ ~PageDue(arg.assignment_id).date.ok

C14_NeverRaises ==
    out.op = "_parse_date" => ~out.raised

\* the due timestamps the page's blob holds for the id: in the assignment
\* group listings, and among the student entries of the effective due dates
ListedDues(id) ==
    IF PageBlob.blob.agShape # "list" THEN {}
    ELSE {PageBlob.blob.ag[i].due_at : i \in {j \in 1..Len(PageBlob.blob.ag) :
              PageBlob.blob.ag[j].id = id /\ PageBlob.blob.ag[j].due_at # NullDue}}
EffectiveDues(id) ==
    IF PageBlob.blob.effShape # "map" THEN <<>>
    ELSE SelectSeq(PageBlob.blob.eff[id], LAMBDA d : d # NullDue)

\* the structured lookup was asked for an id on a page that holds a blob
StructuredAsked ==
    /\ out.op = "_extract_structured_date"
    /\ arg.assignment_id # NoId
    /\ soup.set /\ PageBlob.set

(* C27: the structured lookup for an assignment id returns the date of a   *)
(* non-null due timestamp the blob's assignment-group listings hold for    *)
(* the id; when the listings hold none it returns the date of the first    *)
(* student entry with a non-null timestamp in the effective due dates of   *)
(* the id; it returns absent only when neither source has a non-null       *)
(* timestamp for the id.                                                   *)
C27_GroupsThenEffective ==
    StructuredAsked =>
        /\ ~out.raised
        /\ ListedDues(arg.assignment_id) # {}
            => \E d \in ListedDues(arg.assignment_id) :
                   d.kind = "iso" /\ out.date = Date(d.day)
        /\ (ListedDues(arg.assignment_id) = {}
             /\ EffectiveDues(arg.assignment_id) # <<>>)
            => /\ EffectiveDues(arg.assignment_id)[1].kind = "iso"
               /\ out.date = Date(EffectiveDues(arg.assignment_id)[1].day)
        /\ ~out.date.ok
            => /\ ListedDues(arg.assignment_id) = {}
               /\ EffectiveDues(arg.assignment_id) = <<>>

---------------------------------------------------------------------------
(* Claims on the overall grade, under SpecGrade *)

\* the grades blob of the page, when its only script region holds one
HasGradeBlob == soup.set /\ Len(soup.scripts) = 1 /\ soup.scripts[1].lit.tag = "json"
PageGradeBlob == soup.scripts[1].lit.blob

\* the earned and possible totals of group i of the page's blob
TotalsOf(i) ==
    GroupTotals(PageGradeBlob.groups[i].assignments, PageGradeBlob.submissions,
                1, NoTotals)

\* the groups the aggregate ranges over: weight > 0 and possible total > 0
Ranged ==
    {i \in 1 .. Len(PageGradeBlob.groups) :
        PageGradeBlob.groups[i].group_weight > 0 /\ TotalsOf(i).possible > 0}

RECURSIVE SumOver(_, _)
\* the sum of the rationals f[i], i in S
SumOver(f, S) ==
    IF S = {} THEN Whole(0)
    ELSE LET i == CHOOSE j \in S : TRUE
         IN  RatAdd(f[i], SumOver(f, S \ {i}))

\* the groups and submissions of the example: weight 40 with 90/100 and
\* weight 60 with 70/100
ExampleGroups ==
    <<Group(40, <<Assignment(1, Num(100))>>), Group(60, <<Assignment(2, Num(100))>>)>>
ExampleSubmissions ==
    [i \in Ids |-> IF i = 1 THEN Submission(Num(90)) ELSE Submission(Num(70))]
IsExample ==
    /\ HasGradeBlob
    /\ PageGradeBlob.groups = ExampleGroups
    /\ PageGradeBlob.submissions = ExampleSubmissions

(* C8: the percentage _extract_overall_grade computes is the sum of        *)
(* group_pct * group_weight over the sum of group_weight, both sums over   *)
(* the groups with weight > 0 and possible total > 0 only, group_pct being *)
(* earned / possible * 100; a group whose possible total is zero adds to   *)
(* neither sum.  Weight 40 with 90/100 and weight 60 with 70/100 give 78.  *)
C8_WeightedMean ==
    /\ (out.op = "_extract_overall_grade" /\ out.has_grade)
       => /\ HasGradeBlob
          /\ Ranged # {}
          /\ out.percentage =
                RatDiv(SumOver([i \in Ranged |->
                                   RatMul(GroupPercentage(TotalsOf(i)),
                                          Whole(PageGradeBlob.groups[i].group_weight))],
                               Ranged),
                       SumOver([i \in Ranged |->
                                   Whole(PageGradeBlob.groups[i].group_weight)],
                               Ranged))
    /\ (out.op = "_extract_overall_grade" /\ IsExample /\ PageGradeBlob.scheme # "null")
       => (out.has_grade /\ out.percentage = Whole(78))

\* a grade was computed from a blob with a group of positive weight whose
\* possible total is zero although a score was earned in it, next to a
\* group that counts
C8_Witness ==
    /\ out.op = "_extract_overall_grade" /\ out.has_grade
    /\ \E i \in 1 .. Len(PageGradeBlob.groups) :
        /\ PageGradeBlob.groups[i].group_weight > 0
        /\ TotalsOf(i).possible = 0
        /\ TotalsOf(i).earned > 0
    /\ out.percentage = Whole(90)

(* C9: when the blob has no course_active_grading_scheme data, or the data *)
(* is empty, the letter grade of the computed percentage is the one of the *)
(* fixed default table (78.0 is 'C+').                                     *)
C9_DefaultTable ==
    (out.op = "_extract_overall_grade" /\ out.has_grade
     /\ (PageGradeBlob.scheme \in {"missing", "nodata"} \/ PageGradeBlob.data = <<>>))
    => out.letter_grade = _percentage_to_letter_grade(out.percentage)

\* the weight sum over the gradeable groups of the page's blob
GradeableWeight ==
    IF ~HasGradeBlob THEN 0
    ELSE SumOver([i \in Ranged |-> Whole(PageGradeBlob.groups[i].group_weight)],
                 Ranged).n

(* C11: when the weight sum over the gradeable groups (weight > 0 and      *)
(* possible total > 0) is zero, the grade extraction yields no course      *)
(* grade: has_course_grade is false and the percentage and the letter are  *)
(* absent; a grade of 0% is never reported in that case.                   *)
C11_NoGradeWithoutWeight ==
    (out.op = "GradeScraper.extract_data" /\ ~out.raised /\ GradeableWeight = 0)
    => /\ ~out.grade_data.has_course_grade
       /\ ~out.grade_data.course_grade.present
       /\ ~out.grade_data.overall_grade.present
       /\ out.grade_data.course_letter_grade = NoLetter
       /\ out.grade_data.overall_letter_grade = NoLetter

\* the extraction ran on a blob with submissions and two groups of positive
\* weight, none of them gradeable: one with a score in an assignment of no
\* points, one with an ungraded submission only
C11_Witness ==
    /\ out.op = "GradeScraper.extract_data" /\ ~out.raised
    /\ HasGradeBlob
    /\ Len(PageGradeBlob.groups) = 2
    /\ \A i \in 1 .. 2 : PageGradeBlob.groups[i].group_weight > 0
    /\ PageGradeBlob.groups[1].assignments = <<Assignment(2, Num(0))>>
    /\ PageGradeBlob.groups[2].assignments = <<Assignment(1, Num(100))>>
    /\ PageGradeBlob.submissions[2].present /\ ~PageGradeBlob.submissions[2].score.null
    /\ PageGradeBlob.submissions[1].present /\ PageGradeBlob.submissions[1].score.null
    /\ PageGradeBlob.scheme = "data"
    /\ GradeableWeight = 0
    /\ ~out.grade_data.has_course_grade

---------------------------------------------------------------------------
(* Claims on the letter grade, under SpecLetter *)

\* the scale is course-supplied and well formed: it has entries, and every
\* value is a number
IsScale(q) == q # <<>> /\ \A i \in 1 .. Len(q) : q[i].numeric

\* entry i of the scale q is at most the percentage as a fraction
AtMost(q, i, percentage) == RatGeq(percentage, Whole(q[i].value))

\* the letter the claim names: of the entry of the greatest threshold at
\* most the percentage, 'F' when there is none
GreatestAtMost(q, percentage) ==
    IF \A i \in 1 .. Len(q) : ~AtMost(q, i, percentage) THEN "F"
    ELSE q[CHOOSE i \in 1 .. Len(q) :
              /\ AtMost(q, i, percentage)
              /\ \A j \in 1 .. Len(q) :
                    AtMost(q, j, percentage) => q[j].value <= q[i].value].name

\* the scales that list the entries of q in another order
Reorderings(q) ==
    {r \in Scales : Len(r) = Len(q) /\ {r[i] : i \in 1 .. Len(r)} = {q[i] : i \in 1 .. Len(q)}}

(* C10: given a course-supplied scale, the letter returned is the name of  *)
(* the entry with the greatest threshold at most percentage / 100, 'F'     *)
(* when no threshold is, and it is the same for every order in which the   *)
(* entries are listed.                                                     *)
C10_GreatestThreshold ==
    (out.op = "_percentage_to_letter_grade_with_scheme" /\ IsScale(arg.grading_data))
    => /\ out.val = GreatestAtMost(arg.grading_data, arg.percentage)
       /\ \A r \in Reorderings(arg.grading_data) :
            _percentage_to_letter_grade_with_scheme(arg.percentage, r) = out.val

\* a scale listed with a lower threshold first, and a percentage that is
\* above two of its thresholds
C10_Witness ==
    /\ out.op = "_percentage_to_letter_grade_with_scheme"
    /\ IsScale(arg.grading_data)
    /\ Len(arg.grading_data) = 3
    /\ arg.grading_data[1].value < arg.grading_data[2].value
    /\ AtMost(arg.grading_data, 1, arg.percentage)
    /\ AtMost(arg.grading_data, 2, arg.percentage)
    /\ ~AtMost(arg.grading_data, 3, arg.percentage)
    /\ out.val = arg.grading_data[2].name

---------------------------------------------------------------------------
(* Claims on the score parser, under SpecScore *)

(* C15: _parse_score returns (absent, absent) whenever the grade token is  *)
(* 'EX', non-numeric, empty or missing, whatever the '/max' companion of   *)
(* the cell is; for such a cell it never returns a pair with only one      *)
(* component present.                                                      *)
C15_NoGradeNoPair ==
    (out.op = "_parse_score" /\ arg.row.score_cell /\ arg.row.grade # "num")
    => (~out.score.present /\ ~out.max_score.present)

---------------------------------------------------------------------------
(* Claims on the pass over the rows, under SpecRows *)

RowsDone == out.op = "extract_data"

RECURSIVE FailedFrom(_, _, _)
\* the positions, from i on, of the rows whose processing raises during a
\* pass over the page sp that starts with the instance inst
FailedFrom(sp, i, inst) ==
    IF i > Len(sp.rows) THEN {}
    ELSE Bind(ExtractRow(sp, sp.rows[i], inst), LAMBDA r :
           (IF r.raised THEN {i} ELSE {}) \cup FailedFrom(sp, i + 1, r.inst))

RECURSIVE RowsOutside(_, _, _)
\* the rows of rw from position i on whose position is not in F, in order
RowsOutside(rw, F, i) ==
    IF i > Len(rw) THEN <<>>
    ELSE (IF i \in F THEN <<>> ELSE <<rw[i]>>) \o RowsOutside(rw, F, i + 1)

\* the instance as it was when the pass began
InstBefore == Inst(arg.cache, 0, 0)
FailedRows == FailedFrom(soup, 1, InstBefore)

(* C25: every assignment record extract_data produces has a non-empty      *)
(* name: a row whose title link text is empty or whitespace only yields no *)
(* record.                                                                 *)
C25_NamedRecords ==
    RowsDone => \A i \in 1 .. Len(out.assignments) : out.assignments[i].name # ""

(* C18: in extract_data a failure while processing one row affects only    *)
(* that row: the pass does not raise, and its records are, in the same     *)
(* document order, the records of the pass over the page without the       *)
(* failing rows.                                                           *)
C18_RowIsolation ==
    RowsDone =>
        /\ ~out.raised
        /\ out.assignments =
             extract_data(Soup(soup.scripts, RowsOutside(soup.rows, FailedRows, 1)),
                          InstBefore).assignments

\* a page of three rows whose middle row raised, the other two recorded in
\* their order
C18_Witness ==
    /\ RowsDone
    /\ Len(soup.rows) = 3
    /\ FailedRows = {2}
    /\ Len(out.assignments) = 2
    /\ out.assignments[1].name = soup.rows[1].name
    /\ out.assignments[2].name = soup.rows[3].name
    /\ soup.rows[1].name # soup.rows[3].name

\* the row a record was made from: the rows of a page that share a name
\* are copies of one row
RowOf(rec) == CHOOSE row \in {soup.rows[j] : j \in 1 .. Len(soup.rows)} :
                  row.title = "link" /\ StripName(row.name) = rec.name

(* C29: for every record of extract_data on which none of the rules        *)
(* EXCUSED, LATE, GRADED, SUBMITTED-by-text fires, the status is UPCOMING  *)
(* exactly when the due_date of the record is present and strictly in the  *)
(* future: the classifier decides on the date the record carries.          *)
C29_UpcomingOwnDueDate ==
    RowsDone => \A i \in 1 .. Len(out.assignments) :
        ~EarlyRule(RowOf(out.assignments[i])) =>
            (out.assignments[i].status = UPCOMING
             <=> (out.assignments[i].due_date.ok
                  /\ out.assignments[i].due_date.day > Today))

(* C30: the submitted_date of a record of extract_data is derived only     *)
(* from the submitted cell of its row: it is the date the text of the cell *)
(* denotes, never the due timestamp the blob holds for the assignment.     *)
C30_SubmittedFromCell ==
    RowsDone => \A i \in 1 .. Len(out.assignments) :
        out.assignments[i].submitted_date =
            TextDate(CellText(RowOf(out.assignments[i]).submitted_cell,
                              RowOf(out.assignments[i]).submitted_text))

---------------------------------------------------------------------------
(* Claims on the store, under SpecStore *)

\* the ids of the courses of the store d with the canvas id for the student
CoursesOf(d, canvas_course_id, student_id) ==
    {i \in 1 .. Len(d.courses) :
        /\ d.courses[i].student_id = student_id
        /\ d.courses[i].canvas_course_id = canvas_course_id}

RECURSIVE StoredFrom(_, _, _)
\* the records the assignments table holds for the course id, in table
\* order, from row i on
StoredFrom(assignments, id, i) ==
    IF i > Len(assignments) THEN <<>>
    ELSE (IF assignments[i].course_id = id THEN <<assignments[i].data>> ELSE <<>>)
         \o StoredFrom(assignments, id, i + 1)

StoredAssignments(d, id) == StoredFrom(d.assignments, id, 1)

(* C19: when save_assignments(records, course, student) returns, the       *)
(* student's course is one course of the store whose stored assignments    *)
(* are exactly the records of the call, none left over and none merged,    *)
(* and the stored assignments of every other course are as they were; this *)
(* holds for each call of any sequence of calls.                           *)
C19_Superseded ==
    [][arg'.op = "save_assignments" =>
        LET saved == CoursesOf(db', arg'.canvas_course_id, arg'.student_id)
        IN  /\ Cardinality(saved) = 1
            /\ \A id \in saved :
                 StoredAssignments(db', id) = arg'.assignments_data
            /\ \A id \in (1 .. Len(db'.courses)) \ saved :
                 /\ id <= Len(db.courses)
                 /\ StoredAssignments(db', id) = StoredAssignments(db, id)]_vars

\* the course created first was saved again after a course created later:
\* its rows come after the rows of the other course, and are the one record
\* of the last call
C19_Witness ==
    /\ arg.op = "save_assignments"
    /\ CoursesOf(db, arg.canvas_course_id, arg.student_id) = {1}
    /\ Len(arg.assignments_data) = 1
    /\ Len(db.assignments) = 3
    /\ db.assignments[1].course_id = 2 /\ db.assignments[2].course_id = 2
    /\ db.assignments[3] = [course_id |-> 1, data |-> arg.assignments_data[1]]

---------------------------------------------------------------------------
(* Claims on the session, under SpecSession *)

\* the grade rows the store holds for the course scrape_course was called for
StoredGrades ==
    {db.course_grades[i] : i \in
        {j \in 1 .. Len(db.course_grades) :
            db.course_grades[j].course_id
                \in CoursesOf(db, arg.course_id, SessionStudent)}}

(* C20: after a successful scrape_course of a course the stored course     *)
(* grade reflects the grade this scrape computed: with a computed grade    *)
(* the store holds its percentage and letter, and without one (has_grade   *)
(* false) the store does not present the percentage and letter of an       *)
(* earlier scrape with has_grade true.                                     *)
C20_StoredGradeCurrent ==
    (out.op = "scrape_course" /\ out.ok) =>
        IF out.grade_data.has_course_grade
        THEN \A g \in StoredGrades :
                /\ g.has_grade
                /\ g.percentage = out.grade_data.course_grade
                /\ g.letter_grade = out.grade_data.course_letter_grade
        ELSE \A g \in StoredGrades : ~g.has_grade

---------------------------------------------------------------------------
(* Claims on the grade table, under SpecGradeStore *)

\* the positions of the grade rows of the course id
GradeRowsOf(id) ==
    {i \in 1 .. Len(db.course_grades) : db.course_grades[i].course_id = id}

---------------------------------------------------------------------------
(* Claims on the score fragment, under SpecFormat *)

Formatted == out.op = "_format_score"
NumericPair == arg.score.kind = "num" /\ arg.max_score.kind = "num"

(* C22: for every numeric (score, max_score) the letter _format_score      *)
(* shows is the letter the default scale of the grade calculator           *)
(* (_percentage_to_letter_grade) gives to score / max_score * 100, 0% when *)
(* max_score is 0.                                                         *)
C22_SameBands ==
    (Formatted /\ NumericPair) =>
        out.val.letter_grade =
            _percentage_to_letter_grade(
                FormatPercentage(arg.score.x, arg.max_score.x))

\* a number written without a trailing '.0'
Stripped(x) ==
    [whole |-> x \div 10, point |-> x % 10 # 0, tenth |-> x % 10]

---------------------------------------------------------------------------
(* Claims on scrape_all_courses, under SpecAll *)

(* C24: scrape_all_courses saves the scraping metadata exactly once on     *)
(* every path: when no courses are found, on normal completion, and on a   *)
(* critical error raised at any step, the step before the student name is  *)
(* obtained included; on a critical error the metadata is saved and the    *)
(* original exception is then re-raised.                                   *)
C24_MetadataOnce ==
    out.op = "scrape_all_courses" =>
        /\ Len(db.service_metadata) = 1
        /\ out.raised \in {"none", "original"}
        /\ out.raised = "original" => db.service_metadata[1].last_scraping_status = "critical"

---------------------------------------------------------------------------
(* Claims on the sections of a course page, under SpecSections *)

Grouped == out.op = "_group_assignments_into_sections"

SectionNames == {"upcoming", "graded", "missing", "unknown"}

\* the section the statement gives to a status
SectionFor(status) ==
    CASE status = "UPCOMING" -> "upcoming"
      [] status \in {"GRADED", "SUBMITTED", "EXCUSED", "LATE"} -> "graded"
      [] status = "MISSING" -> "missing"
      [] OTHER -> "unknown"

\* the positions of section n that hold the assignment named i
PlacesOf(n, i) ==
    {p \in 1..Len(out.sections[n]) : out.sections[n][p].name = i}

Dated(a) == a.due_date.kind = "iso"

(* C28: _group_assignments_into_sections places every assignment in        *)
(* exactly one of the four sections, the one of its status, and within     *)
(* every section the assignments with no or an unparsable due date come    *)
(* after all assignments that have one, the dated ones soonest first in    *)
(* 'upcoming' and newest first in the other sections.                      *)
C28_SectionsOrdered ==
    Grouped =>
        /\ \A i \in 1..Len(arg.assignments) : \A n \in SectionNames :
               /\ Cardinality(PlacesOf(n, i)) =
                      (IF n = SectionFor(arg.assignments[i].status) THEN 1 ELSE 0)
               /\ \A p \in PlacesOf(n, i) : out.sections[n][p] = arg.assignments[i]
        /\ \A n \in SectionNames : \A p, q \in 1..Len(out.sections[n]) :
               p < q =>
                   /\ Dated(out.sections[n][q]) => Dated(out.sections[n][p])
                   /\ (Dated(out.sections[n][p]) /\ Dated(out.sections[n][q])) =>
                          IF n = "upcoming"
                          THEN out.sections[n][p].due_date.day
                                   <= out.sections[n][q].due_date.day
                          ELSE out.sections[n][p].due_date.day
                                   >= out.sections[n][q].due_date.day

====
